---- MODULE Spec2Model ----
(***************************************************************************)
(* A model of the better-arkts formatting pipelines:                       *)
(*   - the struct/UI pipeline: ArkTSLexer2 -> ArkTSParser -> formatDocument *)
(*     guarded by ArkTSFormattingProvider, with the basic fallback          *)
(*     reindenter formatWithBasicRulesText;                                 *)
(*   - the markup pipeline: HmlLexer -> HmlParser.                          *)
(* Source text is a sequence of one-character strings; offsets are          *)
(* 0-based as in the TypeScript source, so the character at offset p of s   *)
(* is s[p + 1].                                                             *)
(***************************************************************************)
EXTENDS Integers, Sequences, FiniteSets, TLC

(***************************************************************************)
(* String helpers (JavaScript String methods used by the source).          *)
(***************************************************************************)

\* s[p] ?? ''
At(s, p) == IF p >= 0 /\ p < Len(s) THEN s[p + 1] ELSE ""

Min(a, b) == IF a < b THEN a ELSE b

Max(a, b) == IF a > b THEN a ELSE b

MinOf(S) == CHOOSE x \in S : \A y \in S : x <= y

MaxOf(S) == CHOOSE x \in S : \A y \in S : x >= y

\* s.slice(a, b) for 0 <= a
Slice(s, a, b) == SubSeq(s, a + 1, Min(b, Len(s)))

\* s.slice(a)
SliceFrom(s, a) == SubSeq(s, a + 1, Len(s))

\* s.slice(1, -1)
SliceInner(s) == SubSeq(s, 2, Len(s) - 1)

\* s.startsWith(p, at)
StartsWithAt(s, p, at) == /\ at + Len(p) <= Len(s)
                          /\ SubSeq(s, at + 1, at + Len(p)) = p

StartsWith(s, p) == StartsWithAt(s, p, 0)

EndsWith(s, p) == /\ Len(p) <= Len(s)
                  /\ SubSeq(s, Len(s) - Len(p) + 1, Len(s)) = p

\* the characters String.prototype.trim removes (those the model's texts use)
WhiteChars == {" ", "\t", "\n", "\r"}

\* the first offset >= p whose character is not in set, or the end
ScanWhile(s, p, set) ==
    LET stops == {q \in p..(Len(s) - 1) : s[q + 1] \notin set}
    IN  IF stops = {} THEN Max(p, Len(s)) ELSE MinOf(stops)

\* the first offset >= p whose character is in set, or the end
ScanUntil(s, p, set) ==
    LET stops == {q \in p..(Len(s) - 1) : s[q + 1] \in set}
    IN  IF stops = {} THEN Max(p, Len(s)) ELSE MinOf(stops)

TrimStart(s) == SliceFrom(s, ScanWhile(s, 0, WhiteChars))

TrimEnd(s) ==
    LET kept == {k \in 1..Len(s) : s[k] \notin WhiteChars}
    IN  IF kept = {} THEN <<>> ELSE SubSeq(s, 1, MaxOf(kept))

Trim(s) == TrimEnd(TrimStart(s))

RECURSIVE Repeat(_, _)
Repeat(s, n) == IF n <= 0 THEN <<>> ELSE s \o Repeat(s, n - 1)

\* lines.join(eol)
RECURSIVE Join(_, _)
Join(lines, eol) == IF lines = <<>> THEN <<>>
                    ELSE IF Len(lines) = 1 THEN lines[1]
                    ELSE lines[1] \o eol \o Join(Tail(lines), eol)

\* s.split(/\r?\n/)
\* the lines of s from offset p on: a line ends before "\n", or before the "\r" of "\r\n"
RECURSIVE SplitFrom(_, _)
SplitFrom(s, p) ==
    LET q == ScanUntil(s, p, {"\n"})
    IN  IF q >= Len(s) THEN <<SliceFrom(s, p)>>
        ELSE <<Slice(s, p, IF q > p /\ At(s, q - 1) = "\r" THEN q - 1 ELSE q)>>
             \o SplitFrom(s, q + 1)

SplitLines(s) == SplitFrom(s, 0)

\* the number of positions of s holding a character of set
CountIn(s, set) == Cardinality({k \in 1..Len(s) : s[k] \in set})


Digits == {"0", "1", "2", "3", "4", "5", "6", "7", "8", "9"}

LowerLetters == {"a", "b", "c", "d", "e", "f", "g", "h", "i", "j", "k", "l", "m",
                 "n", "o", "p", "q", "r", "s", "t", "u", "v", "w", "x", "y", "z"}

UpperLetters == {"A", "B", "C", "D", "E", "F", "G", "H", "I", "J", "K", "L", "M",
                 "N", "O", "P", "Q", "R", "S", "T", "U", "V", "W", "X", "Y", "Z"}

Letters == LowerLetters \cup UpperLetters

\* \w of a regular expression
WordChars == Letters \cup Digits \cup {"_"}

(***************************************************************************)
(* ArkTSLexer2                                                             *)
(***************************************************************************)

\* the string a sequence of characters spells
RECURSIVE Str(_)
Str(s) == IF s = <<>> THEN "" ELSE Head(s) \o Str(Tail(s))

KEYWORDS ==
    { "import", "export", "default", "from", "as", "lazy", "struct",
      "class", "interface", "extends", "implements", "function", "return",
      "if", "else", "for", "while", "do", "switch", "case", "break",
      "continue", "try", "catch", "finally", "throw", "new", "this",
      "super", "const", "let", "var", "public", "private", "protected",
      "static", "readonly", "abstract", "async", "await", "get", "set",
      "type", "enum", "namespace", "true", "false", "null", "undefined" }

OPERATORS ==
    { "===", "!==", "==", "!=", "<=", ">=", "=>", "++", "--", "&&", "||",
      "??", "+=", "-=", "*=", "/=", "%=", "??=", "<<", ">>", ">>>", "&",
      "|", "^", "~", "+", "-", "*", "/", "%", "<", ">", "=", "!", "?", ":",
      ".", "?." }

PUNCTUATORS == {"{", "}", "(", ")", "[", "]", ",", ";"}

\* the backtick character (a TLA+ string cannot hold one)
BT == "<backtick>"

IdentStart == Letters \cup {"_", "$"}

IdentPart == IdentStart \cup Digits

HexDigits == Digits \cup {"a", "b", "c", "d", "e", "f", "A", "B", "C", "D", "E", "F"}

MkTok(text, type, start, end) ==
    [type |-> type, value |-> Str(Slice(text, start, end)), start |-> start, end |-> end]

\* consumeNewline: the offset after "\r\n", "\r" or "\n" at p
NewlineEnd(text, p) ==
    IF At(text, p) = "\r" /\ At(text, p + 1) = "\n" THEN p + 2 ELSE p + 1

\* the block-comment loop: the offset after the first "*/" at or after p, or the end
BlockCommentEnd(text, p) ==
    LET ends == {q \in p..(Len(text) - 1) : At(text, q) = "*" /\ At(text, q + 1) = "/"}
    IN  IF ends = {} THEN Max(p, Len(text)) ELSE Min(MinOf(ends) + 2, Len(text))

\* consumeString for a template string with the braces of an interpolation never closing it
RECURSIVE templateEndBracesOpen(_, _, _)
templateEndBracesOpen(text, p, braceDepth) ==
    IF p >= Len(text) THEN p
    ELSE LET ch == At(text, p) IN
         IF ch = "\\" THEN templateEndBracesOpen(text, Min(p + 2, Len(text)), braceDepth)
         ELSE IF ch = BT /\ braceDepth = 0 THEN p + 1
         ELSE IF ch = "$" /\ At(text, p + 1) = "{"
              THEN templateEndBracesOpen(text, p + 2, braceDepth + 1)
         ELSE templateEndBracesOpen(text, ScanUntil(text, p + 1, {"\\", BT, "$"}), braceDepth)

\* consumeString for a template string: the offset after the template string whose body starts at p
RECURSIVE TemplateEnd(_, _, _)
TemplateEnd(text, p, braceDepth) ==
    IF p >= Len(text) THEN p
    ELSE LET ch == At(text, p) IN
         IF ch = "\\" THEN TemplateEnd(text, Min(p + 2, Len(text)), braceDepth)
         ELSE IF ch = BT /\ braceDepth = 0 THEN p + 1
         ELSE IF ch = "$" /\ At(text, p + 1) = "{" THEN TemplateEnd(text, p + 2, braceDepth + 1)
         ELSE IF ch = "{" /\ braceDepth > 0 THEN TemplateEnd(text, p + 1, braceDepth + 1)
         ELSE IF ch = "}" /\ braceDepth > 0 THEN TemplateEnd(text, p + 1, braceDepth - 1)
         \* any other character is stepped over
         ELSE TemplateEnd(text, ScanUntil(text, p + 1, {"\\", BT, "$", "{", "}"}), braceDepth)

\* consumeString for a quoted string: the offset after the string whose body starts at p
RECURSIVE QuotedEnd(_, _, _)
QuotedEnd(text, p, quote) ==
    IF p >= Len(text) THEN p
    ELSE IF At(text, p) = "\\" THEN QuotedEnd(text, Min(p + 2, Len(text)), quote)
    ELSE IF At(text, p) = quote THEN p + 1
    \* any other character is stepped over
    ELSE QuotedEnd(text, ScanUntil(text, p + 1, {"\\", quote}), quote)

\* consumeNumber: the offset after the number starting at p
NumberEnd(text, p) ==
    IF At(text, p) = "0" /\ At(text, p + 1) \in {"x", "X"}
    THEN ScanWhile(text, p + 2, HexDigits)
    ELSE LET p1 == ScanWhile(text, p, Digits)
             p2 == IF At(text, p1) = "." /\ At(text, p1 + 1) \in Digits
                   THEN ScanWhile(text, p1 + 1, Digits) ELSE p1
             next == At(text, p2 + 1)
         IN  IF At(text, p2) \in {"e", "E"} /\ next \in (Digits \cup {"+", "-"})
             THEN ScanWhile(text, IF next \in {"+", "-"} THEN p2 + 2 ELSE p2 + 1, Digits)
             ELSE p2

\* consumeRegExp: the offset after the literal whose body starts at p, or -1 when a
\* line break is met first (the lexer rewinds and lexes "/" as an operator)
RECURSIVE RegExpEnd(_, _, _)
RegExpEnd(text, p, inCharClass) ==
    IF p >= Len(text) THEN p
    ELSE LET ch == At(text, p) IN
         IF ch = "\\" THEN RegExpEnd(text, Min(p + 2, Len(text)), inCharClass)
         ELSE IF ch = "[" THEN RegExpEnd(text, p + 1, TRUE)
         ELSE IF ch = "]" /\ inCharClass THEN RegExpEnd(text, p + 1, FALSE)
         ELSE IF ch = "/" /\ ~inCharClass THEN ScanWhile(text, p + 1, IdentPart)
         ELSE IF ch \in {"\n", "\r"} THEN -1
         \* any other character is stepped over
         ELSE RegExpEnd(text, ScanUntil(text, p + 1, {"\\", "[", "]", "/", "\n", "\r"}),
                        inCharClass)

\* matchOperator: the length of the longest operator at p (maxLen = 3), 0 when none
matchOperator(text, p) ==
    IF Str(Slice(text, p, p + 3)) \in OPERATORS THEN Len(Slice(text, p, p + 3))
    ELSE IF Str(Slice(text, p, p + 2)) \in OPERATORS THEN Len(Slice(text, p, p + 2))
    ELSE IF Str(Slice(text, p, p + 1)) \in OPERATORS THEN 1
    ELSE 0

\* ArkTSLexer2.nextToken with the lexer at offset pos
nextToken(text, pos) ==
    LET ch == At(text, pos)
        n1 == At(text, pos + 1)
    IN  IF pos >= Len(text) THEN MkTok(text, "EOF", pos, pos)
        ELSE IF ch \in {"\n", "\r"} THEN MkTok(text, "Newline", pos, NewlineEnd(text, pos))
        ELSE IF ch \in {" ", "\t"}
             THEN MkTok(text, "Whitespace", pos, ScanWhile(text, pos, {" ", "\t"}))
        ELSE IF ch = "/" /\ n1 = "/"
             THEN MkTok(text, "Comment", pos, ScanUntil(text, pos + 2, {"\n", "\r"}))
        ELSE IF ch = "/" /\ n1 = "*"
             THEN MkTok(text, IF At(text, pos + 2) = "*" THEN "DocComment" ELSE "BlockComment",
                        pos, BlockCommentEnd(text, pos + 2))
        ELSE IF ch = "@" THEN MkTok(text, "Decorator", pos, ScanWhile(text, pos + 1, IdentPart))
        ELSE IF ch = BT THEN MkTok(text, "TemplateString", pos, TemplateEnd(text, pos + 1, 0))
        ELSE IF ch \in {"\"", "'"} THEN MkTok(text, "String", pos, QuotedEnd(text, pos + 1, ch))
        ELSE IF ch \in Digits \/ (ch = "." /\ n1 \in Digits)
             THEN MkTok(text, "Number", pos, NumberEnd(text, pos))
        ELSE IF ch \in IdentStart
             THEN LET e == ScanWhile(text, pos + 1, IdentPart)
                  IN  MkTok(text, IF Str(Slice(text, pos, e)) \in KEYWORDS
                                  THEN "Keyword" ELSE "Identifier", pos, e)
        ELSE IF ch = "/" /\ RegExpEnd(text, pos + 1, FALSE) >= 0
             THEN MkTok(text, "RegExp", pos, RegExpEnd(text, pos + 1, FALSE))
        ELSE IF ch \in PUNCTUATORS THEN MkTok(text, "Punctuator", pos, pos + 1)
        ELSE IF matchOperator(text, pos) > 0
             THEN MkTok(text, "Operator", pos, pos + matchOperator(text, pos))
        ELSE MkTok(text, "Punctuator", pos, pos + 1)

\* ArkTSParser.tokenizeAll: every token of the text, the EOF token last
RECURSIVE tokenizeFrom(_, _)
tokenizeFrom(text, pos) ==
    LET t == nextToken(text, pos)
    IN  IF t.type = "EOF" THEN <<t>> ELSE <<t>> \o tokenizeFrom(text, t.end)

tokenizeAll(text) == tokenizeFrom(text, 0)


(***************************************************************************)
(* State                                                                   *)
(***************************************************************************)

VARIABLES
    \* ArkTSFormattingProvider / ArkTSParser
    sourceText,     \* the text being parsed (document.getText(), or the first result)
    docOptions,     \* [tabSize, insertSpaces, eol] of the editor and the document
    formatOptions,  \* the FormatOptions the provider builds (semicolon inferred)
    tokens,         \* ArkTSParser.tokens
    tokenIndex,     \* ArkTSParser.tokenIndex
    pc,             \* where the run is: which loop, or which provider step
    frames,         \* the suspended callers of the loop that is running
    children,       \* doc.children
    stuck,          \* iterations in a row that left tokenIndex where it was
    pass,           \* 1: the provider's run, 2: the run on the first result
    original,       \* the provider's input text
    formatted,      \* formatDocument's output of the first pass
    result,         \* the text the provider's edit leaves in the document
    route,          \* "structural" or "fallback"
    again,          \* formatDocument's output of the second pass
    errors          \* ArkTSParser.errors

arkVars == <<sourceText, docOptions, formatOptions, tokens, tokenIndex, pc, frames,
             children, stuck, pass, original, formatted, result, route, again, errors>>

(***************************************************************************)
(* ArkTSParser: cursor primitives.  An index i stands for tokenIndex = i,  *)
(* and every reader returns the index it leaves the cursor at.             *)
(***************************************************************************)

createEOF == [type |-> "EOF", value |-> "", start |-> 0, end |-> 0]

\* this.tokens[i] ?? this.createEOF(), the value of this.current at tokenIndex = i
tokenAt(i) == IF i >= 0 /\ i < Len(tokens) THEN tokens[i + 1] ELSE createEOF

isPunctuator(i, v) == tokenAt(i).type = "Punctuator" /\ tokenAt(i).value = v

isOperator(i, v) == tokenAt(i).type = "Operator" /\ tokenAt(i).value = v

isKeyword(i, v) == tokenAt(i).type = "Keyword" /\ tokenAt(i).value = v

isValue(i, v) == tokenAt(i).value = v

isEOF(i) == tokenAt(i).type = "EOF"

\* the characters of this.current.value at tokenIndex = i
valueAt(i) == Slice(sourceText, tokenAt(i).start, tokenAt(i).end)

\* the values of the tokens i .. j-1 appended in order (result += this.current.value)
valuesOf(i, j) ==
    IF j <= i THEN <<>> ELSE Slice(sourceText, tokenAt(i).start, tokenAt(j - 1).end)

RECURSIVE skipWhitespaceAndComments(_)
skipWhitespaceAndComments(i) ==
    IF tokenAt(i).type \in {"Whitespace", "Newline", "Comment", "BlockComment", "DocComment"}
    THEN skipWhitespaceAndComments(i + 1)
    ELSE i

\* the loop of consumeBalanced from index j at the given depth: the index of the
\* closing token that brings depth to 0, or of the EOF token
RECURSIVE balancedClose(_, _, _, _)
balancedClose(j, depth, open, close) ==
    IF isEOF(j) THEN j
    ELSE IF isValue(j, open) THEN balancedClose(j + 1, depth + 1, open, close)
    ELSE IF isValue(j, close) /\ depth - 1 = 0 THEN j
    ELSE balancedClose(j + 1, IF isValue(j, close) THEN depth - 1 ELSE depth, open, close)

consumeBalanced(i, open, close) ==
    LET \* the two returns of the loop, which stopped at index j
        to(j) ==
            IF isEOF(j)
            THEN [text |-> SliceFrom(sourceText, tokenAt(i).start), idx |-> j]
            ELSE [text |-> Slice(sourceText, tokenAt(i).start, tokenAt(j).end),
                  idx |-> j + 1]
    IN  IF ~isValue(i, open) THEN [text |-> <<>>, idx |-> i]
        ELSE to(balancedClose(i, 0, open, close))

RECURSIVE readUntilEnd(_, _)
readUntilEnd(j, stop) ==
    IF isEOF(j) \/ isPunctuator(j, "{") \/ tokenAt(j).value \in stop THEN j
    ELSE readUntilEnd(j + 1, stop)

\* the tokens i .. j-1 read as text, and the cursor left at j
readTo(i, j) == [text |-> valuesOf(i, j), idx |-> j]

\* the same with the text trimmed (return result.trim())
readTrimmedTo(i, j) == [text |-> Trim(valuesOf(i, j)), idx |-> j]

readUntil(i, stop) == readTo(i, readUntilEnd(i, stop))

\* the loop of readTypeAnnotation: the index of the token it stops at
RECURSIVE typeAnnotationEnd(_, _)
typeAnnotationEnd(j, depth) ==
    IF isEOF(j) THEN j
    ELSE LET v == tokenAt(j).value
             d1 == IF v \in {"{", "(", "[", "<"} THEN depth + 1 ELSE depth
             d2 == IF v \in {"}", ")", "]", ">"} THEN d1 - 1 ELSE d1
         IN  IF d2 < 0 THEN j
             ELSE IF d2 = 0 /\ (v \in {"=", ",", ";", "{", ")"} \/ tokenAt(j).type = "Newline")
                  THEN j
             ELSE typeAnnotationEnd(j + 1, d2)

readTypeAnnotation(i) == readTrimmedTo(i, typeAnnotationEnd(i, 0))

\* the loop of readExpression: the index of the token it stops at
RECURSIVE expressionEnd(_, _)
expressionEnd(j, depth) ==
    IF isEOF(j) THEN j
    ELSE LET v == tokenAt(j).value
             d1 == IF v \in {"{", "(", "["} THEN depth + 1 ELSE depth
         IN  IF v \in {"}", ")", "]"} /\ d1 = 0 THEN j
             ELSE LET d2 == IF v \in {"}", ")", "]"} THEN d1 - 1 ELSE d1
                  IN  IF d2 = 0 /\ (v \in {",", ";"} \/ tokenAt(j).type = "Newline")
                      THEN j
                      ELSE expressionEnd(j + 1, d2)

readExpression(i) == readTrimmedTo(i, expressionEnd(i, 0))

\* nothing read at index i: the text is undefined and the cursor stays
nothingAt(i) == [text |-> <<>>, idx |-> i]

\* if (this.isOperator(':')) { advance; skipWhitespaceAndComments; readTypeAnnotation }
typeAnnotationAt(i) ==
    IF isOperator(i, ":") THEN readTypeAnnotation(skipWhitespaceAndComments(i + 1))
    ELSE nothingAt(i)

\* if (this.isOperator('=')) { advance; skipWhitespaceAndComments; readExpression }
initializerAt(i) ==
    IF isOperator(i, "=") THEN readExpression(skipWhitespaceAndComments(i + 1))
    ELSE nothingAt(i)

\* if (this.isPunctuator('(')) args = this.consumeBalanced('(', ')')
argumentsAt(i) == IF isPunctuator(i, "(") THEN consumeBalanced(i, "(", ")") ELSE nothingAt(i)

\* if (this.isPunctuator('{')) body = this.consumeBalanced('{', '}')
bodyAt(i) == IF isPunctuator(i, "{") THEN consumeBalanced(i, "{", "}") ELSE nothingAt(i)

\* if (this.isOperator('<')) this.consumeBalanced('<', '>'): the cursor after it
afterTypeParameters(i) == IF isOperator(i, "<") THEN consumeBalanced(i, "<", ">").idx ELSE i

\* parseDecorators with parseDecorator inlined; arguments = <<>> stands for undefined
RECURSIVE parseDecorators(_)
parseDecorators(i) ==
    LET \* the decorator at index i with its arguments args, then the rest of the loop
        of(args) ==
            [parseDecorators(skipWhitespaceAndComments(args.idx))
                EXCEPT !.decorators =
                    <<[name |-> SliceFrom(valueAt(i), 1), arguments |-> args.text]>> \o @]
    IN  IF tokenAt(i).type # "Decorator" THEN [decorators |-> <<>>, idx |-> i]
        ELSE of(argumentsAt(skipWhitespaceAndComments(i + 1)))

\* the tail shared by parseFunction and parseMethod after parseParameters:
\* an optional ": returnType" and an optional "{ body }"
parseSignatureTail(i) ==
    LET of(rt, body) == [returnType |-> rt.text, body |-> body.text, idx |-> body.idx]
        afterType(rt) == of(rt, bodyAt(skipWhitespaceAndComments(rt.idx)))
    IN  afterType(typeAnnotationAt(skipWhitespaceAndComments(i)))

(***************************************************************************)
(* ArkTSParser: the declarations parsed without a member or parameter loop *)
(***************************************************************************)

\* \b of a regular expression at offset p
WordBoundary(s, p) == (At(s, p - 1) \in WordChars) # (At(s, p) \in WordChars)

\* [A-Za-z_$][\w$]* at offset p: the offset after it, -1 when it does not match
IdentEnd(s, p) == IF At(s, p) \in IdentStart THEN ScanWhile(s, p + 1, IdentPart) ELSE -1

\* \s+ at offset p: the offset after it, -1 when it does not match
SpacesEnd(s, p) == IF At(s, p) \in WhiteChars THEN ScanWhile(s, p, WhiteChars) ELSE -1

\* s.split(sep) for a one-character separator
RECURSIVE SplitOn(_, _, _)
SplitOn(s, sep, p) ==
    LET q == ScanUntil(s, p, {sep})
    IN  IF q >= Len(s) THEN <<SliceFrom(s, p)>>
        ELSE <<Slice(s, p, q)>> \o SplitOn(s, sep, q + 1)

\* parts.map(s => s.trim()).filter(Boolean)
RECURSIVE TrimmedNonEmpty(_)
TrimmedNonEmpty(parts) ==
    IF parts = <<>> THEN <<>>
    ELSE (IF Trim(Head(parts)) = <<>> THEN <<>> ELSE <<Trim(Head(parts))>>)
         \o TrimmedNonEmpty(Tail(parts))

\* s.split(',').map(s => s.trim()).filter(Boolean)
commaList(s) == TrimmedNonEmpty(SplitOn(s, ",", 0))

\* the least member of a set of offsets, -1 when it is empty: where the first match is
firstOf(ps) == IF ps = {} THEN -1 ELSE MinOf(ps)

\* group 1 of a match whose group starts at offset p and ends before offset q, <<>>
\* (undefined) when p < 0: there is no match
groupAt(s, p, q) == IF p < 0 THEN <<>> ELSE Slice(s, p, q)

\* trimmed.match(/\bfrom\s+['"]([^'"]+)['"]/): group 1 of the first match, '' when none
importSource(s) ==
    LET \* ['"]([^'"]+)['"] at offset p: the offset after group 1, -1 when it does not match
        quotedEnd(p) ==
            IF /\ p >= 0
               /\ At(s, p) \in {"'", "\""}
               /\ ScanUntil(s, p + 1, {"'", "\""}) > p + 1
               /\ ScanUntil(s, p + 1, {"'", "\""}) < Len(s)
            THEN ScanUntil(s, p + 1, {"'", "\""}) ELSE -1
        \* the whole pattern at offset p: the offset of the opening quote, -1 when it
        \* does not match
        fromQuoteAt(p) ==
            IF /\ WordBoundary(s, p)
               /\ StartsWithAt(s, <<"f", "r", "o", "m">>, p)
               /\ quotedEnd(SpacesEnd(s, p + 4)) >= 0
            THEN SpacesEnd(s, p + 4) ELSE -1
        after(quote) == groupAt(s, quote + 1, quotedEnd(quote))
        from(p) == IF p < 0 THEN <<>> ELSE after(fromQuoteAt(p))
    IN  from(firstOf({p \in 0..Len(s) : fromQuoteAt(p) >= 0}))

\* trimmed.match(/\bimport\s+(?:lazy\s+)?([A-Za-z_$][\w$]*)\s+from\b/): group 1 of the
\* first match, <<>> (undefined) when none
importDefault(s) ==
    LET \* \s+from\b at offset p
        spacesFromAt(p) ==
            /\ p >= 0
            /\ SpacesEnd(s, p) >= 0
            /\ StartsWithAt(s, <<"f", "r", "o", "m">>, SpacesEnd(s, p))
            /\ WordBoundary(s, SpacesEnd(s, p) + 4)
        \* ([A-Za-z_$][\w$]*)\s+from\b at offset q (the name is taken whole: after a
        \* shorter name \s+ cannot match)
        nameThenFrom(q) == q >= 0 /\ spacesFromAt(IdentEnd(s, q))
        \* lazy\s+ at offset a followed by the name and from: the offset of the name
        lazyNameAt(a) ==
            IF a >= 0 /\ StartsWithAt(s, <<"l", "a", "z", "y">>, a) /\ nameThenFrom(SpacesEnd(s, a + 4))
            THEN SpacesEnd(s, a + 4) ELSE -1
        \* the offset of group 1 after "import\s+" ended at offset a: with "lazy\s+" taken
        \* if that matches, else without it; -1 when neither does
        nameAfter(a) ==
            IF lazyNameAt(a) >= 0 THEN lazyNameAt(a)
            ELSE IF nameThenFrom(a) THEN a ELSE -1
        \* the whole pattern at offset p: the offset of group 1
        nameAt(p) ==
            IF WordBoundary(s, p) /\ StartsWithAt(s, <<"i", "m", "p", "o", "r", "t">>, p)
            THEN nameAfter(SpacesEnd(s, p + 6)) ELSE -1
        group(q) == groupAt(s, q, IdentEnd(s, q))
        from(p) == IF p < 0 THEN <<>> ELSE group(nameAt(p))
    IN  from(firstOf({p \in 0..Len(s) : nameAt(p) >= 0}))

\* trimmed.match(/\{([^}]+)\}/) and the split of group 1: <<>> when there is no match
\* (undefined) or no name (the formatter treats both alike)
importNamed(s) ==
    LET \* the pattern at offset p: the offset of the closing brace, -1 when it does not match
        bracedEnd(p) ==
            IF /\ At(s, p) = "{"
               /\ ScanUntil(s, p + 1, {"}"}) > p + 1
               /\ ScanUntil(s, p + 1, {"}"}) < Len(s)
            THEN ScanUntil(s, p + 1, {"}"}) ELSE -1
        from(p) == IF p < 0 THEN <<>> ELSE commaList(Slice(s, p + 1, bracedEnd(p)))
    IN  from(firstOf({p \in 0..Len(s) : bracedEnd(p) >= 0}))

\* trimmed.match(/\*\s+as\s+([A-Za-z_$][\w$]*)/): group 1 of the first match, <<>> when none
importNamespace(s) ==
    LET \* as\s+([A-Za-z_$][\w$]*) at offset a: the offset of group 1, -1 when it does not match
        asNameAt(a) ==
            IF a >= 0 /\ StartsWithAt(s, <<"a", "s">>, a) /\ IdentEnd(s, SpacesEnd(s, a + 2)) >= 0
            THEN SpacesEnd(s, a + 2) ELSE -1
        \* the whole pattern at offset p: the offset of group 1
        nameAt(p) == IF At(s, p) = "*" THEN asNameAt(SpacesEnd(s, p + 1)) ELSE -1
        group(q) == groupAt(s, q, IdentEnd(s, q))
        from(p) == IF p < 0 THEN <<>> ELSE group(nameAt(p))
    IN  from(firstOf({p \in 0..Len(s) : nameAt(p) >= 0}))

\* the loop of parseImport: the index of the Newline, ";" or EOF token that ends it
RECURSIVE importEnd(_)
importEnd(j) ==
    IF isEOF(j) \/ tokenAt(j).type = "Newline" \/ isPunctuator(j, ";") THEN j
    ELSE importEnd(j + 1)

\* parseImport (isLazy and location are not read by the formatter and are left out)
parseImport(i) ==
    LET \* the Import node built from the trimmed raw text
        of(trimmed) ==
            [type |-> "Import",
             source |-> importSource(trimmed),
             defaultImport |-> importDefault(trimmed),
             namedImports |-> importNamed(trimmed),
             namespaceImport |-> importNamespace(trimmed)]
        \* the loop stopped at index j: the ending Newline or ";" is part of raw, and only
        \* ";" is advanced over
        to(j) ==
            [node |-> of(Trim(IF isEOF(j) THEN valuesOf(i, j) ELSE valuesOf(i, j + 1))),
             idx |-> IF isPunctuator(j, ";") THEN j + 1 ELSE j]
    IN  to(importEnd(i))

RECURSIVE enumBrace(_)
enumBrace(j) == IF isEOF(j) \/ isPunctuator(j, "{") THEN j ELSE enumBrace(j + 1)

\* the Expression node of parseEnum and parseVariableLike
expressionOf(raw, idx) == [node |-> [type |-> "Expression", raw |-> Trim(raw)], idx |-> idx]

parseEnum(i) ==
    LET \* the balanced block b read at index j
        of(j, b) == expressionOf(valuesOf(i, j) \o b.text, b.idx)
        to(j) == of(j, consumeBalanced(j, "{", "}"))
    IN  to(enumBrace(i))

\* the loop of parseVariableLike from index j with raw collected so far
RECURSIVE variableLikeLoop(_, _)
variableLikeLoop(j, raw) ==
    LET \* the loop goes on after the piece b: a balanced block, or the token
        next(b) == variableLikeLoop(b.idx, raw \o b.text)
    IN  IF isEOF(j) THEN expressionOf(raw, j)
        ELSE IF isPunctuator(j, ";") \/ tokenAt(j).type = "Newline"
             THEN expressionOf(raw \o valueAt(j), j + 1)
        ELSE next(IF isPunctuator(j, "{") THEN consumeBalanced(j, "{", "}")
                  ELSE IF isPunctuator(j, "(") THEN consumeBalanced(j, "(", ")")
                  ELSE IF isPunctuator(j, "[") THEN consumeBalanced(j, "[", "]")
                  ELSE IF isOperator(j, "<") THEN consumeBalanced(j, "<", ">")
                  ELSE [text |-> valueAt(j), idx |-> j + 1])

parseVariableLike(i) == variableLikeLoop(i, <<>>)

\* "name" and the cursor after the optional Identifier that names a declaration
declarationName(i, default) ==
    IF tokenAt(i).type = "Identifier" THEN [name |-> valueAt(i), idx |-> i + 1]
    ELSE [name |-> default, idx |-> i]

\* if (this.isOperator('<')) { consumeBalanced('<', '>'); skipWhitespaceAndComments() }
skipTypeParameters(i) ==
    IF isOperator(i, "<") THEN skipWhitespaceAndComments(consumeBalanced(i, "<", ">").idx)
    ELSE i

\* if (this.isKeyword(kw)) { advance; skipWhitespaceAndComments; readUntil(stop) }
clauseAt(i, kw, stop) ==
    IF isKeyword(i, kw) THEN readUntil(skipWhitespaceAndComments(i + 1), stop)
    ELSE nothingAt(i)

\* parseInterface: the body is skipped, members stays []
parseInterface(i) ==
    LET of(n, ext) ==
            [node |-> [type |-> "Interface", name |-> n.name,
                       extends |-> commaList(ext.text)],
             idx |-> bodyAt(ext.idx).idx]
        named(n) ==
            of(n, clauseAt(skipTypeParameters(skipWhitespaceAndComments(n.idx)),
                           "extends", {"{"}))
    IN  named(declarationName(skipWhitespaceAndComments(i + 1), <<"U", "n", "k", "n", "o", "w", "n">>))

\* the extends and implements clauses of parseStruct and parseClass, from index i
heritage(i) ==
    LET of(ext, impl) ==
            [extends |-> Trim(ext.text), implements |-> commaList(impl.text),
             idx |-> impl.idx]
        afterExtends(ext) == of(ext, clauseAt(ext.idx, "implements", {"{"}))
    IN  afterExtends(clauseAt(i, "extends", {"{", "implements"}))

(***************************************************************************)
(* ArkTSParser: declarations with a member list or a parameter list.       *)
(* A parser of such a declaration returns an outcome:                      *)
(*   [kind |-> "node", node, idx]    the declaration is complete           *)
(*   [kind |-> "loop", frame, idx]   the cursor is inside "{" or "(" and   *)
(*                                   the loop named by frame.loop starts;  *)
(*                                   frame holds what the caller resumes   *)
(*                                   with when the loop exits              *)
(* export is [exported, isDefault]: whether parseExport is the caller.     *)
(***************************************************************************)

Null == [type |-> "Null"]

Unknown == <<"U", "n", "k", "n", "o", "w", "n">>

notExported == [exported |-> FALSE, isDefault |-> FALSE]

\* what parseExport returns around the declaration it parsed
exportOf(node, export) ==
    IF export.exported
    THEN [type |-> "Export", isDefault |-> export.isDefault, declaration |-> node]
    ELSE node

\* the declaration owner with the return type and body of the tail t, as its caller
\* returns it
signed(owner, export, t) ==
    [kind |-> "node",
     node |-> exportOf([owner EXCEPT !.returnType = t.returnType, !.body = t.body], export),
     idx |-> t.idx]

\* parseParameters up to its loop, for the declaration `owner` it reads parameters for
parseParameters(i, owner, export) ==
    IF ~isPunctuator(i, "(")
    THEN signed(owner, export, parseSignatureTail(i))
    ELSE [kind |-> "loop",
          frame |-> [loop |-> "parameters", owner |-> owner, export |-> export],
          idx |-> i + 1]

\* parseStructMembers / parseClassMembers up to their loop
parseMembers(i, owner, export) ==
    IF ~isPunctuator(i, "{")
    THEN [kind |-> "node", node |-> exportOf(owner, export), idx |-> i]
    ELSE [kind |-> "loop",
          frame |-> [loop |-> "members", owner |-> owner, export |-> export],
          idx |-> i + 1]

\* if (cond) { this.advance(); this.skipWhitespaceAndComments() }: the cursor after a
\* token that is taken only when cond holds
afterIf(cond, i) == IF cond THEN skipWhitespaceAndComments(i + 1) ELSE i

\* a declaration parsed without a loop, as the outcome its caller returns
nodeOutcome(r, export) == [kind |-> "node", node |-> exportOf(r.node, export), idx |-> r.idx]

parseStruct(i, decorators, export) ==
    LET of(n, h) ==
            parseMembers(h.idx,
                         [type |-> "Struct", name |-> n.name, decorators |-> decorators,
                          members |-> <<>>, extends |-> h.extends,
                          implements |-> h.implements],
                         export)
        named(n) == of(n, heritage(skipWhitespaceAndComments(n.idx)))
    IN  named(declarationName(skipWhitespaceAndComments(i + 1), Unknown))

parseClass(i, decorators, export) ==
    LET of(n, h, isAbstract) ==
            parseMembers(h.idx,
                         [type |-> "Class", name |-> n.name, decorators |-> decorators,
                          members |-> <<>>, extends |-> h.extends,
                          implements |-> h.implements, isAbstract |-> isAbstract],
                         export)
        named(n, isAbstract) == of(n, heritage(skipWhitespaceAndComments(n.idx)), isAbstract)
        \* i1 is the index of "class"
        at(i1, isAbstract) ==
            named(declarationName(skipWhitespaceAndComments(i1 + 1), Unknown), isAbstract)
    IN  at(afterIf(isKeyword(i, "abstract"), i), isKeyword(i, "abstract"))

parseFunction(i, decorators, export) ==
    LET named(n, isAsync, isGenerator) ==
            parseParameters(skipTypeParameters(skipWhitespaceAndComments(n.idx)),
                            [type |-> "Function", name |-> n.name, decorators |-> decorators,
                             parameters |-> <<>>, returnType |-> <<>>, body |-> <<>>,
                             isAsync |-> isAsync, isGenerator |-> isGenerator],
                            export)
        \* i2 is the index after "function"
        from(i2, isAsync) ==
            named(declarationName(afterIf(isOperator(i2, "*"), i2), <<>>), isAsync,
                  isOperator(i2, "*"))
        \* i1 is the index of "function"
        at(i1, isAsync) == from(skipWhitespaceAndComments(i1 + 1), isAsync)
    IN  at(afterIf(isKeyword(i, "async"), i), isKeyword(i, "async"))

\* the dispatch on the keyword of a declaration that parseTopLevel and parseExport both
\* make at index j; kind = "none" when no branch is taken
declarationAt(j, decorators, export) ==
    IF isKeyword(j, "struct") THEN parseStruct(j, decorators, export)
    ELSE IF isKeyword(j, "class") \/ isKeyword(j, "abstract")
         THEN parseClass(j, decorators, export)
    ELSE IF isKeyword(j, "interface") THEN nodeOutcome(parseInterface(j), export)
    ELSE IF isKeyword(j, "function") \/ isKeyword(j, "async")
         THEN parseFunction(j, decorators, export)
    ELSE IF \E k \in {"const", "let", "var", "type"} : isKeyword(j, k)
         THEN nodeOutcome(parseVariableLike(j), export)
    ELSE IF isKeyword(j, "enum") THEN nodeOutcome(parseEnum(j), export)
    ELSE [kind |-> "none"]

\* the outcome o of the dispatch, or what the caller does when no branch was taken
orElse(o, otherwise) == IF o.kind = "none" THEN otherwise ELSE o

\* parseExport: "export", an optional "default", decorators, then the declaration; with
\* no declaration the Export node holds null and the cursor stays
parseExport(i, decorators) ==
    LET declared(more, export) ==
            orElse(declarationAt(more.idx, decorators \o more.decorators, export),
                   nodeOutcome([node |-> Null, idx |-> more.idx], export))
        \* i1 is the index after "export"
        at(i1) ==
            declared(parseDecorators(afterIf(isKeyword(i1, "default"), i1)),
                     [exported |-> TRUE, isDefault |-> isKeyword(i1, "default")])
    IN  at(skipWhitespaceAndComments(i + 1))

\* parseTopLevel: an unrecognized token is advanced over and null is returned
parseTopLevel(i) ==
    LET at(d) ==
            IF isKeyword(d.idx, "import") THEN nodeOutcome(parseImport(d.idx), notExported)
            ELSE IF isKeyword(d.idx, "export") THEN parseExport(d.idx, d.decorators)
            ELSE orElse(declarationAt(d.idx, d.decorators, notExported),
                        nodeOutcome([node |-> Null, idx |-> d.idx + 1], notExported))
    IN  at(parseDecorators(i))

(***************************************************************************)
(* ArkTSParser: members                                                    *)
(***************************************************************************)

\* the modifier loop of parseMember
RECURSIVE memberModifiers(_, _)
memberModifiers(i, m) ==
    LET next == skipWhitespaceAndComments(i + 1)
    IN  IF \E k \in {"public", "private", "protected"} : isKeyword(i, k)
        THEN memberModifiers(next, [m EXCEPT !.visibility = valueAt(i)])
        ELSE IF isKeyword(i, "static") THEN memberModifiers(next, [m EXCEPT !.isStatic = TRUE])
        ELSE IF isKeyword(i, "readonly")
             THEN memberModifiers(next, [m EXCEPT !.isReadonly = TRUE])
        ELSE IF isKeyword(i, "async") THEN memberModifiers(next, [m EXCEPT !.isAsync = TRUE])
        ELSE IF isKeyword(i, "abstract")
             THEN memberModifiers(next, [m EXCEPT !.isAbstract = TRUE])
        ELSE [m EXCEPT !.idx = i]

\* the index of the "{" of "build ( ) {" at index i, -1 when the probe restores the cursor
buildProbe(i) ==
    LET i1 == skipWhitespaceAndComments(i + 1)
        i2 == skipWhitespaceAndComments(i1 + 1)
        i3 == skipWhitespaceAndComments(i2 + 1)
    IN  IF /\ tokenAt(i).type \in {"Identifier", "Keyword"}
           /\ tokenAt(i).value = "build"
           /\ isPunctuator(i1, "(")
           /\ isPunctuator(i2, ")")
           /\ isPunctuator(i3, "{")
        THEN i3 ELSE -1

\* the index the probe for "build ( ) {" at index i leaves the cursor at, before the
\* cursor is restored: i when the token at i is not build
buildProbeStop(i) ==
    LET i1 == skipWhitespaceAndComments(i + 1)
        i2 == skipWhitespaceAndComments(i1 + 1)
    IN  IF ~(tokenAt(i).type \in {"Identifier", "Keyword"} /\ tokenAt(i).value = "build")
        THEN i
        ELSE IF ~isPunctuator(i1, "(") THEN i1
        ELSE IF ~isPunctuator(i2, ")") THEN i2
        ELSE skipWhitespaceAndComments(i2 + 1)

\* savePosition with the cursor at index i
savePosition(i) == i

\* the cursor left where the probe stopped
positionKept(i, pos) == i

\* restorePosition(pos) with the cursor at index i: the index of the cursor after it
restorePosition(i, pos) == pos

\* parseBuildMethod at "{" (the UI components parsed from the body are not read by the
\* formatter, which prints rawBody)
parseBuildMethod(i, decorators) ==
    LET of(b) == [kind |-> "node",
                  node |-> [type |-> "BuildMethod", decorators |-> decorators,
                            rawBody |-> SliceInner(b.text)],
                  idx |-> b.idx]
    IN  of(consumeBalanced(i, "{", "}"))

parseProperty(i, name, decorators, m, isOptional) ==
    LET \* i2 is the index after the initializer and the skip that follows it
        ended(i2) == IF isPunctuator(i2, ";") \/ tokenAt(i2).type = "Newline"
                     THEN i2 + 1 ELSE i2
        of(pt, init) ==
            [kind |-> "node",
             node |-> [type |-> "Property", name |-> name, decorators |-> decorators,
                       propertyType |-> pt.text, initializer |-> init.text,
                       visibility |-> m.visibility, isStatic |-> m.isStatic,
                       isReadonly |-> m.isReadonly, isOptional |-> isOptional],
             idx |-> ended(skipWhitespaceAndComments(init.idx))]
        typed(pt) == of(pt, initializerAt(skipWhitespaceAndComments(pt.idx)))
    IN  typed(typeAnnotationAt(i))

parseMethod(i, name, decorators, m) ==
    parseParameters(afterTypeParameters(i),
                    [type |-> "Method", name |-> name, decorators |-> decorators,
                     parameters |-> <<>>, returnType |-> <<>>, body |-> <<>>,
                     visibility |-> m.visibility, isStatic |-> m.isStatic,
                     isAsync |-> m.isAsync, isAbstract |-> m.isAbstract],
                    notExported)

parseMember(i, decorators) ==
    LET \* j2 is the index after the name and an optional "?"
        rest(m, j2, isOptional) ==
            IF isPunctuator(j2, "(") \/ isOperator(j2, "<")
            THEN parseMethod(j2, valueAt(m.idx), decorators, m)
            ELSE parseProperty(j2, valueAt(m.idx), decorators, m, isOptional)
        \* j1 is the index after the name
        named(m, j1) == rest(m, afterIf(isOperator(j1, "?"), j1), isOperator(j1, "?"))
        \* the member whose name is looked for at m.idx
        ordinary(m) ==
            IF tokenAt(m.idx).type \notin {"Identifier", "Keyword"}
            THEN [kind |-> "node", node |-> Null, idx |-> m.idx + 1]
            ELSE named(m, skipWhitespaceAndComments(m.idx + 1))
        \* b is the index of the "{" of build() {, or -1
        at(m, b) ==
            IF b >= 0 THEN parseBuildMethod(b, decorators)
            ELSE ordinary([m EXCEPT !.idx = restorePosition(buildProbeStop(m.idx),
                                                            savePosition(m.idx))])
        modified(m) == at(m, buildProbe(m.idx))
    IN  modified(memberModifiers(skipWhitespaceAndComments(i),
                                 [visibility |-> <<>>, isStatic |-> FALSE,
                                  isReadonly |-> FALSE, isAsync |-> FALSE,
                                  isAbstract |-> FALSE, idx |-> i]))

\* parseParameter: param = Null stands for null, returned with the cursor on the token
\* that is not an Identifier
parseParameter(i) ==
    LET of(pt, dv, name, isOptional, isRest, decorators) ==
            [param |-> [type |-> "Parameter", name |-> name,
                        parameterType |-> pt.text, defaultValue |-> dv.text,
                        isOptional |-> isOptional, isRest |-> isRest,
                        decorators |-> decorators],
             idx |-> dv.idx]
        typed(pt, name, isOptional, isRest, decorators) ==
            of(pt, initializerAt(skipWhitespaceAndComments(pt.idx)), name, isOptional,
               isRest, decorators)
        \* i3 is the index after the name
        afterName(i3, name, isRest, decorators) ==
            typed(typeAnnotationAt(afterIf(isOperator(i3, "?"), i3)), name,
                  isOperator(i3, "?"), isRest, decorators)
        \* i2 is the index after an optional "..."
        named(i2, isRest, decorators) ==
            IF tokenAt(i2).type # "Identifier" THEN [param |-> Null, idx |-> i2]
            ELSE afterName(skipWhitespaceAndComments(i2 + 1), valueAt(i2), isRest, decorators)
        at(i1, decorators) ==
            named(afterIf(isPunctuator(i1, "..."), i1), isPunctuator(i1, "..."), decorators)
        decorated(d) == at(skipWhitespaceAndComments(d.idx), d.decorators)
    IN  decorated(parseDecorators(i))

(***************************************************************************)
(* The structural formatter: formatDocument and what it calls.             *)
(* options is [indentSize, eol, maxLineLength, singleQuote, semicolon,     *)
(* trailingComma, bracketSpacing]; an absent string is <<>>.               *)
(***************************************************************************)

\* indent with no white space at any level
indentNone(options, level) == <<>>

indent(options, level) == Repeat(<<" ">>, options.indentSize * level)

sum(nums) == LET RECURSIVE total(_)
                 total(k) == IF k = 0 THEN 0 ELSE nums[k] + total(k - 1)
             IN  total(Len(nums))

countLeadingChars(text, ch) == ScanWhile(text, 0, {ch})

\* the scan of countBracesOutsideStrings from offset i;
\* q is "" outside a string, else the quote that opened it
RECURSIVE braceScan(_, _, _, _, _)
braceScan(text, i, q, escape, n) ==
    LET c == At(text, i)
    IN  IF i >= Len(text) THEN n
        ELSE IF q = "" /\ c = "/" /\ At(text, i + 1) = "/" THEN n
        ELSE IF escape THEN braceScan(text, i + 1, q, FALSE, n)
        ELSE IF c = "\\" THEN braceScan(text, i + 1, q, q # "", n)
        ELSE IF c \in {"'", "\"", BT} /\ q = "" THEN braceScan(text, i + 1, c, FALSE, n)
        ELSE IF c \in {"'", "\"", BT} /\ q = c THEN braceScan(text, i + 1, "", FALSE, n)
        ELSE IF q # "" THEN braceScan(text, ScanUntil(text, i + 1, {"\\", q}), q, FALSE, n)
        ELSE IF c = "{"
             THEN braceScan(text, i + 1, q, FALSE, [n EXCEPT !.openBraces = @ + 1])
        ELSE IF c = "}"
             THEN braceScan(text, i + 1, q, FALSE, [n EXCEPT !.closeBraces = @ + 1])
        \* any other character outside a string is stepped over
        ELSE braceScan(text, ScanUntil(text, i + 1, {"/", "\\", "'", "\"", BT, "{", "}"}),
                       q, FALSE, n)

countBracesOutsideStrings(text) ==
    braceScan(text, 0, "", FALSE, [openBraces |-> 0, closeBraces |-> 0])

\* /^switch\s*\(/
isSwitchStart(t) ==
    StartsWith(t, <<"s", "w", "i", "t", "c", "h">>) /\ At(t, ScanWhile(t, 6, WhiteChars)) = "("

\* /^(case\s+.+:|default\s*:)/
isCaseLabel(t) ==
    \/ /\ StartsWith(t, <<"c", "a", "s", "e">>)
       /\ At(t, 4) \in WhiteChars
       /\ \E q \in 6..Len(t) :
            /\ At(t, q) = ":"
            /\ \E a \in 5..(q - 1) :
                 /\ \A k \in 4..(a - 1) : At(t, k) \in WhiteChars
                 /\ \A k \in a..(q - 1) : At(t, k) \notin {"\n", "\r"}
    \/ /\ StartsWith(t, <<"d", "e", "f", "a", "u", "l", "t">>)
       /\ At(t, ScanWhile(t, 7, WhiteChars)) = ":"

\* /[+\-*/%=&|<>!^~?:]$/.test(prev) && !prev.endsWith('=>') && !prev.endsWith(':')
endsWithOperator(prev) ==
    /\ prev # <<>>
    /\ prev[Len(prev)] \in {"+", "-", "*", "/", "%", "=", "&", "|", "<", ">", "!", "^",
                            "~", "?", ":"}
    /\ ~EndsWith(prev, <<"=", ">">>)
    /\ ~EndsWith(prev, <<":">>)

\* the chain indent with a line that starts with "." never indented
chainIndentNone(trimmed, prevTrimmedLine, prevChainIndent) == 0

\* the chain indent of a line that starts with "." (reindentBlock)
chainIndent(trimmed, prevTrimmedLine, prevChainIndent) ==
    IF ~StartsWith(trimmed, <<".">>) THEN 0
    ELSE IF StartsWith(prevTrimmedLine, <<".">>) THEN prevChainIndent
    ELSE IF EndsWith(prevTrimmedLine, <<"}">>) THEN 0
    ELSE IF endsWithOperator(prevTrimmedLine) THEN 0
    ELSE 1

\* a line inside a doc comment, after "/**": the text pushed after the indent
docCommentLine(trimmed) ==
    IF EndsWith(trimmed, <<"*", "/">>)
    THEN (IF StartsWith(trimmed, <<"*">>) THEN <<" ">> ELSE <<" ", "*", " ">>) \o trimmed
    ELSE LET f == IF ~StartsWith(trimmed, <<"*">>) THEN <<"*", " ">> \o trimmed
                  ELSE IF trimmed = <<"*">> THEN <<" ", "*">>
                  ELSE IF ~StartsWith(trimmed, <<"*", " ">>)
                       THEN <<"*", " ">> \o Trim(SliceFrom(trimmed, 1))
                  ELSE trimmed
         IN  IF StartsWith(f, <<" ">>) THEN f ELSE <<" ">> \o f

\* the state of reindentBlock before its first line
reindentStart ==
    [result |-> <<>>, currentIndent |-> 0, lastWasEmpty |-> FALSE, inSwitchBlock |-> FALSE,
     switchCaseIndent |-> 0, inDocComment |-> FALSE, prevTrimmedLine |-> <<>>,
     prevChainIndent |-> 0, braceExtraIndentStack |-> <<>>]

\* one iteration of the loop of the structural reindentBlock on lines[i]
reindentLine(st, line, baseIndentLevel, options) ==
    LET level == baseIndentLevel + st.currentIndent + sum(st.braceExtraIndentStack)
        \* a line of code: n is its brace count, chain its chain indent, inSwitch and
        \* caseIndent0 are inSwitchBlock and switchCaseIndent after the switch-start test
        code(trimmed, n, chain, inSwitch, caseIndent0) ==
            LET indentBefore == Max(0, st.currentIndent - countLeadingChars(trimmed, "}"))
                extra == sum(st.braceExtraIndentStack)
                isCase == inSwitch /\ isCaseLabel(trimmed)
                out == IF isCase THEN indent(options, baseIndentLevel + indentBefore + extra)
                       ELSE IF inSwitch /\ caseIndent0 > 0 /\ ~StartsWith(trimmed, <<"}">>)
                            THEN indent(options, baseIndentLevel + indentBefore + extra + 1)
                       ELSE indent(options, baseIndentLevel + indentBefore + extra + chain)
                popped == SubSeq(st.braceExtraIndentStack, 1,
                                 Max(0, Len(st.braceExtraIndentStack) - n.closeBraces))
                current == Max(0, st.currentIndent + n.openBraces - n.closeBraces)
                leaves == inSwitch /\ current = 0 /\ trimmed = <<"}">>
            IN  [result |-> Append(st.result, out \o trimmed),
                 currentIndent |-> current,
                 lastWasEmpty |-> FALSE,
                 inSwitchBlock |-> inSwitch /\ ~leaves,
                 switchCaseIndent |-> IF leaves THEN 0 ELSE IF isCase THEN 1 ELSE caseIndent0,
                 inDocComment |-> FALSE,
                 prevTrimmedLine |-> trimmed,
                 prevChainIndent |-> chain,
                 braceExtraIndentStack |-> popped \o Repeat(<<chain>>, n.openBraces)]
        of(trimmed) ==
            IF trimmed = <<>>
            THEN IF ~st.lastWasEmpty /\ st.result # <<>>
                 THEN [st EXCEPT !.result = Append(@, indent(options, level)),
                                 !.lastWasEmpty = TRUE]
                 ELSE st
            ELSE IF StartsWith(trimmed, <<"/", "*", "*">>) /\ ~EndsWith(trimmed, <<"*", "/">>)
            THEN [st EXCEPT !.result = Append(@, indent(options, level) \o trimmed),
                            !.lastWasEmpty = FALSE, !.inDocComment = TRUE,
                            !.prevTrimmedLine = trimmed]
            ELSE IF st.inDocComment
            THEN [st EXCEPT !.result = Append(@, indent(options, level)
                                                 \o docCommentLine(trimmed)),
                            !.lastWasEmpty = FALSE,
                            !.inDocComment = ~EndsWith(trimmed, <<"*", "/">>),
                            !.prevTrimmedLine = trimmed]
            ELSE code(trimmed, countBracesOutsideStrings(trimmed),
                      chainIndent(trimmed, st.prevTrimmedLine, st.prevChainIndent),
                      st.inSwitchBlock \/ isSwitchStart(trimmed),
                      IF isSwitchStart(trimmed) THEN 0 ELSE st.switchCaseIndent)
    IN  of(Trim(line))

\* while (result.length > 0 && result[result.length - 1].trim() === '') result.pop()
RECURSIVE dropTrailingBlank(_)
dropTrailingBlank(lines) ==
    IF lines # <<>> /\ Trim(lines[Len(lines)]) = <<>>
    THEN dropTrailingBlank(SubSeq(lines, 1, Len(lines) - 1))
    ELSE lines

RECURSIVE reindentFrom(_, _, _, _)
reindentFrom(st, lines, baseIndentLevel, options) ==
    IF lines = <<>> THEN st
    ELSE reindentFrom(reindentLine(st, Head(lines), baseIndentLevel, options),
                      Tail(lines), baseIndentLevel, options)

reindentBlock(raw, baseIndentLevel, options) ==
    Join(dropTrailingBlank(
             reindentFrom(reindentStart, SplitLines(raw), baseIndentLevel, options).result),
         options.eol)

formatDecorator(decorator) == <<"@">> \o decorator.name \o decorator.arguments

\* for (const decorator of decorators) result += formatDecorator(decorator) + ' '
RECURSIVE decoratorPrefix(_)
decoratorPrefix(decorators) ==
    IF decorators = <<>> THEN <<>>
    ELSE formatDecorator(Head(decorators)) \o <<" ">> \o decoratorPrefix(Tail(decorators))

formatParameter(param) ==
    decoratorPrefix(param.decorators)
        \o (IF param.isRest THEN <<".", ".", ".">> ELSE <<>>)
        \o param.name
        \o (IF param.isOptional THEN <<"?">> ELSE <<>>)
        \o (IF param.parameterType # <<>> THEN <<":", " ">> \o param.parameterType ELSE <<>>)
        \o (IF param.defaultValue # <<>> THEN <<" ", "=", " ">> \o param.defaultValue ELSE <<>>)

formatParameters(params, options) ==
    LET paramStrings == [k \in 1..Len(params) |-> formatParameter(params[k])]
        singleLine == <<"(">> \o Join(paramStrings, <<",", " ">>) \o <<")">>
    IN  IF params = <<>> THEN <<"(", ")">>
        ELSE IF Len(singleLine) <= options.maxLineLength THEN singleLine
        ELSE <<"(">> \o options.eol \o <<" ", " ">>
             \o Join(paramStrings, <<",">> \o options.eol \o <<" ", " ">>)
             \o (IF options.trailingComma THEN <<",">> ELSE <<>>)
             \o options.eol \o <<")">>

\* "{" eol body eol indent "}" around a reindented body
braced(body, indentLevel, options) ==
    <<"{">> \o options.eol \o body \o options.eol \o indent(options, indentLevel) \o <<"}">>

\* if (!reindented) return '{}', else the braces around it
bracedUnlessEmpty(reindented, indentLevel, options) ==
    IF reindented = <<>> THEN <<"{", "}">> ELSE braced(reindented, indentLevel, options)

formatBody(body, indentLevel, options) ==
    IF ~StartsWith(body, <<"{">>)
    THEN braced(indent(options, indentLevel + 1) \o Trim(body), indentLevel, options)
    ELSE IF Trim(SliceInner(body)) = <<>> THEN <<"{", "}">>
    ELSE bracedUnlessEmpty(reindentBlock(SliceInner(body), indentLevel + 1, options),
                           indentLevel, options)

formatBuildBody(rawBody, indentLevel, options) ==
    IF Trim(rawBody) = <<>> THEN <<>> ELSE reindentBlock(rawBody, indentLevel, options)

formatBuilderBody(body, indentLevel, options) ==
    IF ~StartsWith(body, <<"{">>)
    THEN braced(indent(options, indentLevel + 1) \o Trim(body), indentLevel, options)
    ELSE IF Trim(SliceInner(body)) = <<>> THEN <<"{", "}">>
    ELSE bracedUnlessEmpty(formatBuildBody(Trim(SliceInner(body)), indentLevel + 1, options),
                           indentLevel, options)

\* the lines a declaration's decorators are pushed as
decoratorLines(decorators, ind) ==
    [k \in 1..Len(decorators) |-> ind \o formatDecorator(decorators[k])]

formatProperty(node, indentLevel, options) ==
    indent(options, indentLevel)
        \o decoratorPrefix(node.decorators)
        \o (IF node.visibility # <<>> THEN node.visibility \o <<" ">> ELSE <<>>)
        \o (IF node.isStatic THEN <<"s", "t", "a", "t", "i", "c", " ">> ELSE <<>>)
        \o (IF node.isReadonly THEN <<"r", "e", "a", "d", "o", "n", "l", "y", " ">> ELSE <<>>)
        \o node.name
        \o (IF node.isOptional THEN <<"?">> ELSE <<>>)
        \o (IF node.propertyType # <<>> THEN <<":", " ">> \o node.propertyType ELSE <<>>)
        \o (IF node.initializer # <<>> THEN <<" ", "=", " ">> \o node.initializer ELSE <<>>)
        \o (IF options.semicolon THEN <<";">> ELSE <<>>)

formatMethod(node, indentLevel, options) ==
    LET ind == indent(options, indentLevel)
        hasBuilderDecorator ==
            \E k \in 1..Len(node.decorators) :
                node.decorators[k].name \in {<<"B", "u", "i", "l", "d", "e", "r">>, <<"L", "o", "c", "a", "l", "B", "u", "i", "l", "d", "e", "r">>}
        methodLine ==
            ind
            \o (IF node.visibility # <<>> THEN node.visibility \o <<" ">> ELSE <<>>)
            \o (IF node.isAbstract THEN <<"a", "b", "s", "t", "r", "a", "c", "t", " ">> ELSE <<>>)
            \o (IF node.isStatic THEN <<"s", "t", "a", "t", "i", "c", " ">> ELSE <<>>)
            \o (IF node.isAsync THEN <<"a", "s", "y", "n", "c", " ">> ELSE <<>>)
            \o node.name
            \o formatParameters(node.parameters, options)
            \o (IF node.returnType # <<>> THEN <<":", " ">> \o node.returnType ELSE <<>>)
            \o (IF node.body = <<>> THEN (IF options.semicolon THEN <<";">> ELSE <<>>)
                ELSE IF hasBuilderDecorator
                     THEN <<" ">> \o formatBuilderBody(node.body, indentLevel, options)
                ELSE <<" ">> \o formatBody(node.body, indentLevel, options))
    IN  Join(decoratorLines(node.decorators, ind) \o <<methodLine>>, options.eol)

formatBuildMethod(node, indentLevel, options) ==
    LET ind == indent(options, indentLevel)
        of(formattedBody) ==
            Join(decoratorLines(node.decorators, ind)
                 \o <<ind \o <<"b", "u", "i", "l", "d", "(", ")", " ", "{">>>>
                 \o (IF formattedBody # <<>> THEN <<formattedBody>> ELSE <<>>)
                 \o <<ind \o <<"}">>>>,
                 options.eol)
    IN  of(formatBuildBody(node.rawBody, indentLevel + 1, options))

formatMember(member, indentLevel, options) ==
    IF member.type = "Property" THEN formatProperty(member, indentLevel, options)
    ELSE IF member.type = "Method" THEN formatMethod(member, indentLevel, options)
    ELSE IF member.type = "BuildMethod" THEN formatBuildMethod(member, indentLevel, options)
    ELSE <<>>

needsBlankLineBetweenMembers(prevType, currentType) ==
    \/ prevType = "Property" /\ currentType \in {"Method", "BuildMethod"}
    \/ prevType = "Method" /\ currentType \in {"Method", "BuildMethod"}
    \/ prevType = "BuildMethod" /\ currentType \in {"Method", "BuildMethod"}

\* the member loop of formatStruct (emptyBeforeBuild) and of formatClass: the lines pushed
\* for members[k..], lastMemberType = "" standing for null
RECURSIVE memberLines(_, _, _, _, _, _)
memberLines(members, k, lastMemberType, indentLevel, options, emptyBeforeBuild) ==
    LET type == members[k].type
        blank == IF emptyBeforeBuild /\ lastMemberType = "Property" /\ type = "BuildMethod"
                 THEN <<>> ELSE indent(options, indentLevel + 1)
        of(memberStr) ==
            IF memberStr = <<>>
            THEN memberLines(members, k + 1, lastMemberType, indentLevel, options,
                             emptyBeforeBuild)
            ELSE (IF lastMemberType # "" /\ needsBlankLineBetweenMembers(lastMemberType, type)
                  THEN <<blank>> ELSE <<>>)
                 \o <<memberStr>>
                 \o memberLines(members, k + 1, type, indentLevel, options, emptyBeforeBuild)
    IN  IF k > Len(members) THEN <<>>
        ELSE of(formatMember(members[k], indentLevel + 1, options))

\* " extends X" and " implements A, B" of a struct or class line
heritageText(node) ==
    (IF node.extends # <<>> THEN <<" ", "e", "x", "t", "e", "n", "d", "s", " ">> \o node.extends ELSE <<>>)
    \o (IF node.implements # <<>>
        THEN <<" ", "i", "m", "p", "l", "e", "m", "e", "n", "t", "s", " ">> \o Join(node.implements, <<",", " ">>) ELSE <<>>)

\* formatStruct and formatClass, with lines the lines their member loop pushed
formatStruct(node, indentLevel, options, lines) ==
    LET ind == indent(options, indentLevel)
    IN  Join(decoratorLines(node.decorators, ind)
             \o <<ind \o <<"s", "t", "r", "u", "c", "t", " ">> \o node.name \o heritageText(node) \o <<" ", "{">>>>
             \o lines
             \o <<ind \o <<"}">>>>,
             options.eol)

formatClass(node, indentLevel, options, lines) ==
    LET ind == indent(options, indentLevel)
    IN  Join(decoratorLines(node.decorators, ind)
             \o <<ind \o (IF node.isAbstract THEN <<"a", "b", "s", "t", "r", "a", "c", "t", " ">> ELSE <<>>)
                      \o <<"c", "l", "a", "s", "s", " ">> \o node.name \o heritageText(node) \o <<" ", "{">>>>
             \o lines
             \o <<ind \o <<"}">>>>,
             options.eol)

\* node.members is always [] (parseInterface), so no member line is pushed
formatInterface(node, indentLevel, options) ==
    LET ind == indent(options, indentLevel)
    IN  Join(<<ind \o <<"i", "n", "t", "e", "r", "f", "a", "c", "e", " ">> \o node.name
                   \o (IF node.extends # <<>>
                       THEN <<" ", "e", "x", "t", "e", "n", "d", "s", " ">> \o Join(node.extends, <<",", " ">>) ELSE <<>>)
                   \o <<" ", "{">>,
               ind \o <<"}">>>>,
             options.eol)

formatFunction(node, indentLevel, options) ==
    LET ind == indent(options, indentLevel)
        funcLine ==
            ind
            \o (IF node.isAsync THEN <<"a", "s", "y", "n", "c", " ">> ELSE <<>>)
            \o <<"f", "u", "n", "c", "t", "i", "o", "n", " ">>
            \o (IF node.isGenerator THEN <<"*", " ">> ELSE <<>>)
            \o node.name
            \o formatParameters(node.parameters, options)
            \o (IF node.returnType # <<>> THEN <<":", " ">> \o node.returnType ELSE <<>>)
            \o (IF node.body # <<>> THEN <<" ">> \o formatBody(node.body, indentLevel, options)
                ELSE IF options.semicolon THEN <<";">> ELSE <<>>)
    IN  Join(decoratorLines(node.decorators, ind) \o <<funcLine>>, options.eol)

formatImport(node, options) ==
    LET quote == IF options.singleQuote THEN <<"'">> ELSE <<"\"">>
        semi == IF options.semicolon THEN <<";">> ELSE <<>>
        from == <<" ", "f", "r", "o", "m", " ">> \o quote \o node.source \o quote \o semi
        named == IF options.bracketSpacing
                 THEN <<"{", " ">> \o Join(node.namedImports, <<",", " ">>) \o <<" ", "}">>
                 ELSE <<"{">> \o Join(node.namedImports, <<",", " ">>) \o <<"}">>
        parts == (IF node.defaultImport # <<>> THEN <<node.defaultImport>> ELSE <<>>)
                 \o (IF node.namedImports # <<>> THEN <<named>> ELSE <<>>)
    IN  IF node.namespaceImport # <<>> THEN <<"i", "m", "p", "o", "r", "t", " ", "*", " ", "a", "s", " ">> \o node.namespaceImport \o from
        ELSE IF parts = <<>> /\ node.source # <<>>
             THEN <<"i", "m", "p", "o", "r", "t", " ">> \o quote \o node.source \o quote \o semi
        ELSE <<"i", "m", "p", "o", "r", "t", " ">> \o Join(parts, <<",", " ">>) \o from

\* formatNode for a node that is not an Export
formatDeclaration(node, indentLevel, options) ==
    LET withMembers(lines) ==
            IF node.type = "Struct" THEN formatStruct(node, indentLevel, options, lines)
            ELSE formatClass(node, indentLevel, options, lines)
    IN  IF node.type = "Import" THEN formatImport(node, options)
        ELSE IF node.type \in {"Struct", "Class"}
             THEN withMembers(memberLines(node.members, 1, "", indentLevel, options,
                                          node.type = "Struct"))
        ELSE IF node.type = "Interface" THEN formatInterface(node, indentLevel, options)
        ELSE IF node.type = "Function" THEN formatFunction(node, indentLevel, options)
        ELSE IF node.type = "Expression" THEN indent(options, indentLevel) \o node.raw
        ELSE <<>>

\* formatExport, with declaration the text formatNode returns for node.declaration (a
\* declaration of an Export is never an Export)
formatExport(node, declaration) ==
    LET head == IF node.isDefault THEN <<"e", "x", "p", "o", "r", "t", " ", "d", "e", "f", "a", "u", "l", "t">> ELSE <<"e", "x", "p", "o", "r", "t">>
    IN  IF node.declaration.type # "Null" THEN head \o <<" ">> \o TrimStart(declaration)
        ELSE head

formatNode(node, indentLevel, options) ==
    LET of(declaration) ==
            IF node.type = "Export" THEN formatExport(node, declaration) ELSE declaration
    IN  of(formatDeclaration(IF node.type = "Export" THEN node.declaration ELSE node,
                             indentLevel, options))

needsBlankLineBetween(prevType, currentType) ==
    \/ prevType = "Import" /\ currentType # "Import"
    \/ prevType \in {"Struct", "Class", "Interface", "Function", "Export"}
    \/ currentType \in {"Struct", "Class", "Interface", "Function", "Export"}

\* the loop of formatDocument over children[k..]; lastNodeType = "" stands for null
RECURSIVE documentParts(_, _, _, _)
documentParts(nodes, k, lastNodeType, options) ==
    LET of(f) ==
            IF f = <<>> THEN documentParts(nodes, k + 1, lastNodeType, options)
            ELSE (IF lastNodeType # "" /\ needsBlankLineBetween(lastNodeType, nodes[k].type)
                  THEN <<<<>>>> ELSE <<>>)
                 \o <<f>>
                 \o documentParts(nodes, k + 1, nodes[k].type, options)
    IN  IF k > Len(nodes) THEN <<>> ELSE of(formatNode(nodes[k], 0, options))

formatDocument(nodes, options) ==
    Join(documentParts(nodes, 1, "", options), options.eol) \o options.eol

(***************************************************************************)
(* The basic fallback formatter: detectComplexSyntax and                   *)
(* formatWithBasicRulesText.  options is [eol, indent].                    *)
(* countLeadingChars, countBracesOutsideStrings and sum are the same code  *)
(* as the structural formatter's.                                          *)
(***************************************************************************)

\* \bkw\b at offset k
keywordAt(s, k, kw) ==
    WordBoundary(s, k) /\ StartsWithAt(s, kw, k) /\ WordBoundary(s, k + Len(kw))

\* /\bget\s+\w+\s*\(/ and /\bset\s+\w+\s*\(/ with kw for get or set
accessorAt(s, p, kw) ==
    /\ WordBoundary(s, p)
    /\ StartsWithAt(s, kw, p)
    /\ SpacesEnd(s, p + 3) >= 0
    /\ At(s, SpacesEnd(s, p + 3)) \in WordChars
    /\ At(s, ScanWhile(s, ScanWhile(s, SpacesEnd(s, p + 3), WordChars), WhiteChars)) = "("

\* /struct\s+\w+[^\{]*\{[^}]*\b(enum|interface|class|function)\b/s at offset p
nestedDeclarationAt(s, p) ==
    LET brace == ScanUntil(s, SpacesEnd(s, p + 6) + 1, {"{"})
    IN  /\ StartsWithAt(s, <<"s", "t", "r", "u", "c", "t">>, p)
        /\ SpacesEnd(s, p + 6) >= 0
        /\ At(s, SpacesEnd(s, p + 6)) \in WordChars
        /\ At(s, brace) = "{"
        /\ \E k \in (brace + 1)..Len(s) :
             /\ \A x \in (brace + 1)..(k - 1) : At(s, x) # "}"
             /\ \E kw \in {<<"e", "n", "u", "m">>, <<"i", "n", "t", "e", "r", "f", "a", "c", "e">>, <<"c", "l", "a", "s", "s">>, <<"f", "u", "n", "c", "t", "i", "o", "n">>} :
                    keywordAt(s, k, kw)

detectComplexSyntax(text) ==
    \E p \in 0..Len(text) :
        \/ /\ WordBoundary(text, p)
           /\ StartsWithAt(text, <<"n", "a", "m", "e", "s", "p", "a", "c", "e">>, p)
           /\ SpacesEnd(text, p + 9) >= 0
           /\ At(text, SpacesEnd(text, p + 9)) \in WordChars
        \/ accessorAt(text, p, <<"g", "e", "t">>)
        \/ accessorAt(text, p, <<"s", "e", "t">>)
        \/ nestedDeclarationAt(text, p)

basicIndent(options, level) == Repeat(options.indent, level)

basicReindentStart ==
    [result |-> <<>>, currentIndent |-> 0, lastWasEmpty |-> FALSE, switchStack |-> <<>>,
     inDocComment |-> FALSE, prevTrimmedLine |-> <<>>, prevChainIndent |-> 0,
     braceExtraIndentStack |-> <<>>]

\* one iteration of the loop of the basic reindentBlock on lines[i]
basicReindentLine(st, line, baseIndentLevel, options) ==
    LET level == baseIndentLevel + st.currentIndent + sum(st.braceExtraIndentStack)
        \* a line of code: n is its brace count, chain its chain indent, marked the switch
        \* stack after the push of a switch start and the mark of a case label
        code(trimmed, n, chain, marked, isCase) ==
            LET active == marked # <<>>
                indentBefore == Max(0, st.currentIndent - countLeadingChars(trimmed, "}"))
                extra == sum(st.braceExtraIndentStack)
                out == IF isCase
                       THEN basicIndent(options, baseIndentLevel + indentBefore + extra)
                       ELSE IF active /\ marked[Len(marked)].inCase
                               /\ ~StartsWith(trimmed, <<"}">>)
                            THEN basicIndent(options,
                                             baseIndentLevel + indentBefore + extra + 1)
                       ELSE basicIndent(options,
                                        baseIndentLevel + indentBefore + extra + chain)
                popped == SubSeq(st.braceExtraIndentStack, 1,
                                 Max(0, Len(st.braceExtraIndentStack) - n.closeBraces))
                current == Max(0, st.currentIndent + n.openBraces - n.closeBraces)
                ends == active /\ current = marked[Len(marked)].baseIndent
                        /\ n.closeBraces > 0
            IN  [result |-> Append(st.result, out \o trimmed),
                 currentIndent |-> current,
                 lastWasEmpty |-> FALSE,
                 switchStack |-> IF ends THEN SubSeq(marked, 1, Len(marked) - 1) ELSE marked,
                 inDocComment |-> FALSE,
                 prevTrimmedLine |-> trimmed,
                 prevChainIndent |-> chain,
                 braceExtraIndentStack |-> popped \o Repeat(<<chain>>, n.openBraces)]
        \* pushed is the switch stack after the push of a switch start
        inStack(trimmed, pushed, isCase) ==
            code(trimmed, countBracesOutsideStrings(trimmed),
                 chainIndent(trimmed, st.prevTrimmedLine, st.prevChainIndent),
                 IF isCase THEN [pushed EXCEPT ![Len(pushed)].inCase = TRUE] ELSE pushed,
                 isCase)
        switched(trimmed, pushed) ==
            inStack(trimmed, pushed, pushed # <<>> /\ isCaseLabel(trimmed))
        of(trimmed) ==
            IF trimmed = <<>>
            THEN IF ~st.lastWasEmpty /\ st.result # <<>>
                 THEN [st EXCEPT !.result = Append(@, <<>>), !.lastWasEmpty = TRUE]
                 ELSE st
            ELSE IF StartsWith(trimmed, <<"/", "*", "*">>) /\ ~EndsWith(trimmed, <<"*", "/">>)
            THEN [st EXCEPT !.result = Append(@, basicIndent(options, level) \o trimmed),
                            !.lastWasEmpty = FALSE, !.inDocComment = TRUE,
                            !.prevTrimmedLine = trimmed]
            ELSE IF st.inDocComment
            THEN [st EXCEPT !.result = Append(@, basicIndent(options, level)
                                                 \o docCommentLine(trimmed)),
                            !.lastWasEmpty = FALSE,
                            !.inDocComment = ~EndsWith(trimmed, <<"*", "/">>),
                            !.prevTrimmedLine = trimmed]
            ELSE switched(trimmed,
                          IF isSwitchStart(trimmed)
                          THEN Append(st.switchStack,
                                      [baseIndent |-> st.currentIndent, inCase |-> FALSE])
                          ELSE st.switchStack)
    IN  of(Trim(line))

RECURSIVE basicReindentFrom(_, _, _, _)
basicReindentFrom(st, lines, baseIndentLevel, options) ==
    IF lines = <<>> THEN st
    ELSE basicReindentFrom(basicReindentLine(st, Head(lines), baseIndentLevel, options),
                           Tail(lines), baseIndentLevel, options)

basicReindentBlock(raw, baseIndentLevel, options) ==
    Join(dropTrailingBlank(
             basicReindentFrom(basicReindentStart, SplitLines(raw), baseIndentLevel,
                               options).result),
         options.eol)

formatWithBasicRulesText(text, options) ==
    IF EndsWith(text, options.eol)
    THEN basicReindentBlock(text, 0, options) \o options.eol
    ELSE basicReindentBlock(text, 0, options)

(***************************************************************************)
(* ArkTSFormattingProvider                                                 *)
(***************************************************************************)

\* (text.match(/\/\/.*|\/\*[\s\S]*?\*\//g) || []).length, counted from offset p
RECURSIVE countComments(_, _)
countComments(s, p) ==
    IF p >= Len(s) THEN 0
    ELSE IF At(s, p) = "/" /\ At(s, p + 1) = "/"
         THEN 1 + countComments(s, ScanUntil(s, p + 2, {"\n", "\r"}))
    ELSE IF At(s, p) = "/" /\ At(s, p + 1) = "*"
            /\ \E q \in (p + 2)..Len(s) : StartsWithAt(s, <<"*", "/">>, q)
         THEN 1 + countComments(s, BlockCommentEnd(s, p + 2))
    ELSE countComments(s, ScanUntil(s, p + 1, {"/"}))

\* a post-format check that accepts every output
acceptsEveryOutput(text, out) == FALSE

hasFormattingIssues(text, out) ==
    \/ countComments(out, 0) < countComments(text, 0)
    \/ CountIn(text, {"{", "}"}) # CountIn(out, {"{", "}"})

\* the loop of inferSemicolonStyle: [candidates, withSemi] over lines
RECURSIVE semicolonTally(_)
semicolonTally(lines) ==
    IF lines = <<>> THEN [candidates |-> 0, withSemi |-> 0]
    ELSE LET t == Trim(Head(lines))
             rest == semicolonTally(Tail(lines))
         IN  IF t = <<>> \/ EndsWith(t, <<"{">>) \/ EndsWith(t, <<"}">>) \/ EndsWith(t, <<",">>)
             THEN rest
             ELSE [candidates |-> rest.candidates + 1,
                   withSemi |-> rest.withSemi + (IF EndsWith(t, <<";">>) THEN 1 ELSE 0)]

\* candidates > 0 && withSemi / candidates >= 0.3
inferSemicolonStyle(text) ==
    LET n == semicolonTally(SplitLines(text))
    IN  n.candidates > 0 /\ 10 * n.withSemi >= 3 * n.candidates

\* the indent unit and eol formatWithBasicRules passes
basicOptionsOf(doc) ==
    [eol |-> doc.eol,
     indent |-> IF doc.insertSpaces THEN Repeat(<<" ">>, doc.tabSize) ELSE <<"\t">>]

DEFAULT_FORMAT_OPTIONS ==
    [indentSize |-> 2, eol |-> <<"\n">>, maxLineLength |-> 120, singleQuote |-> TRUE,
     semicolon |-> FALSE, trailingComma |-> FALSE, bracketSpacing |-> TRUE]

\* { ...DEFAULT_FORMAT_OPTIONS, indentSize, eol, semicolon } as the provider builds it
formatOptionsOf(doc, text) ==
    [DEFAULT_FORMAT_OPTIONS EXCEPT !.indentSize = doc.tabSize, !.eol = doc.eol,
                                   !.semicolon = inferSemicolonStyle(text)]

(***************************************************************************)
(* The provider's run as a state machine.  provideDocumentFormattingEdits  *)
(* is cut at the parser's three loops: each iteration of parseDocument's,  *)
(* parseStructMembers'/parseClassMembers' and parseParameters' loop is a   *)
(* step, and frames holds the callers suspended around the running loop.   *)
(***************************************************************************)

\* the loop iterations in a row that may leave the cursor where it was before the
\* model stops following a loop that no longer moves
MaxStuck == 2

top == frames[Len(frames)]

\* stuck after a loop step: the steps in a row that stayed in the loop without advancing
stuckNext == stuck' = IF pc' = pc /\ tokenIndex' = tokenIndex THEN stuck + 1 ELSE 0

\* lines 8-16: the complexity pre-check, then new ArkTSParser(text)
provideStart ==
    /\ pc = "provide"
    /\ IF detectComplexSyntax(sourceText)
       THEN /\ result' = formatWithBasicRulesText(sourceText, basicOptionsOf(docOptions))
            /\ route' = "fallback"
            /\ pc' = "done"
            /\ UNCHANGED <<tokens, tokenIndex>>
       ELSE /\ tokens' = tokenizeAll(sourceText)
            /\ tokenIndex' = 0
            /\ pc' = "document"
            /\ UNCHANGED <<result, route>>
    /\ UNCHANGED <<sourceText, docOptions, formatOptions, frames, children, stuck, pass,
                   original, formatted, again, errors>>

\* the index parseDocument's loop ends at when it ends now, else -1
documentExitAt(i) ==
    IF isEOF(i) THEN i
    ELSE IF isEOF(skipWhitespaceAndComments(i)) THEN skipWhitespaceAndComments(i)
    ELSE -1

\* one iteration of parseDocument's loop that calls parseTopLevel
parseDocumentLoop ==
    /\ pc = "document"
    /\ stuck < MaxStuck
    /\ documentExitAt(tokenIndex) < 0
    /\ \E o \in {parseTopLevel(skipWhitespaceAndComments(tokenIndex))} :
           /\ tokenIndex' = o.idx
           /\ IF o.kind = "node"
              THEN /\ children' = IF o.node.type = "Null" THEN children
                                  ELSE Append(children, o.node)
                   /\ UNCHANGED <<frames, pc>>
              ELSE /\ frames' = <<o.frame>>
                   /\ pc' = o.frame.loop
                   /\ UNCHANGED children
    /\ stuckNext
    /\ UNCHANGED <<sourceText, docOptions, formatOptions, tokens, pass, original, formatted,
                   result, route, again, errors>>

\* parseDocument's loop ends (its condition, or the break after skipping) and it returns
parseDocumentExit ==
    /\ pc = "document"
    /\ documentExitAt(tokenIndex) >= 0
    /\ tokenIndex' = documentExitAt(tokenIndex)
    /\ pc' = "format"
    /\ stuck' = 0
    /\ UNCHANGED <<sourceText, docOptions, formatOptions, tokens, frames, children, pass,
                   original, formatted, result, route, again, errors>>

\* the index of the "}" or EOF the member loop ends at when it ends now, else -1
membersExitAt(i) ==
    IF isEOF(i) \/ isPunctuator(i, "}") THEN i
    ELSE IF isPunctuator(skipWhitespaceAndComments(i), "}")
         THEN skipWhitespaceAndComments(i)
    ELSE -1

\* one iteration of the loop of parseStructMembers / parseClassMembers
parseMembersLoop ==
    /\ pc = "members"
    /\ stuck < MaxStuck
    /\ membersExitAt(tokenIndex) < 0
    /\ \E d \in {parseDecorators(skipWhitespaceAndComments(tokenIndex))} :
       \E o \in {parseMember(d.idx, d.decorators)} :
           /\ tokenIndex' = o.idx
           /\ IF o.kind = "node"
              THEN /\ frames' = IF /\ o.node.type # "Null"
                                   /\ ~(top.owner.type = "Class"
                                        /\ o.node.type = "BuildMethod")
                                THEN [frames EXCEPT ![Len(frames)].owner.members =
                                                        Append(@, o.node)]
                                ELSE frames
                   /\ pc' = pc
              ELSE /\ frames' = Append(frames, o.frame)
                   /\ pc' = o.frame.loop
    /\ stuckNext
    /\ UNCHANGED <<sourceText, docOptions, formatOptions, tokens, children, pass, original,
                   formatted, result, route, again, errors>>

\* the member loop ends; parseStruct / parseClass (and parseExport) return to parseDocument
parseMembersExit ==
    /\ pc = "members"
    /\ membersExitAt(tokenIndex) >= 0
    /\ LET e == membersExitAt(tokenIndex)
       IN  tokenIndex' = IF isPunctuator(e, "}") THEN e + 1 ELSE e
    /\ children' = Append(children, exportOf(top.owner, top.export))
    /\ frames' = <<>>
    /\ pc' = "document"
    /\ stuck' = 0
    /\ UNCHANGED <<sourceText, docOptions, formatOptions, tokens, pass, original, formatted,
                   result, route, again, errors>>

\* the index of the ")" or EOF the parameter loop ends at when it ends now, else -1
parametersExitAt(i) ==
    IF isEOF(i) \/ isPunctuator(i, ")") THEN i
    ELSE IF isPunctuator(skipWhitespaceAndComments(i), ")")
         THEN skipWhitespaceAndComments(i)
    ELSE -1

\* one iteration of the loop of parseParameters
parseParametersLoop ==
    /\ pc = "parameters"
    /\ stuck < MaxStuck
    /\ parametersExitAt(tokenIndex) < 0
    /\ \E p \in {parseParameter(skipWhitespaceAndComments(tokenIndex))} :
       \E i2 \in {skipWhitespaceAndComments(p.idx)} :
           /\ tokenIndex' = IF isPunctuator(i2, ",") THEN i2 + 1 ELSE i2
           /\ frames' = IF p.param.type = "Null" THEN frames
                        ELSE [frames EXCEPT ![Len(frames)].owner.parameters =
                                                Append(@, p.param)]
    /\ pc' = pc
    /\ stuckNext
    /\ UNCHANGED <<sourceText, docOptions, formatOptions, tokens, children, pass, original,
                   formatted, result, route, again, errors>>

\* the parameter loop ends; parseFunction returns to parseDocument, parseMethod to the
\* member loop
parseParametersExit ==
    /\ pc = "parameters"
    /\ parametersExitAt(tokenIndex) >= 0
    /\ \E e \in {parametersExitAt(tokenIndex)} :
       \E t \in {parseSignatureTail(IF isPunctuator(e, ")") THEN e + 1 ELSE e)} :
       \E node \in {[top.owner EXCEPT !.returnType = t.returnType, !.body = t.body]} :
           /\ tokenIndex' = t.idx
           /\ IF Len(frames) = 1
              THEN /\ children' = Append(children, exportOf(node, top.export))
                   /\ frames' = <<>>
                   /\ pc' = "document"
              ELSE /\ frames' = <<[frames[1] EXCEPT !.owner.members = Append(@, node)]>>
                   /\ pc' = "members"
                   /\ UNCHANGED children
    /\ stuck' = 0
    /\ UNCHANGED <<sourceText, docOptions, formatOptions, tokens, pass, original, formatted,
                   result, route, again, errors>>

\* lines 18-36: the parse-error check, formatDocument, the post-format check
provideFinish ==
    /\ pc = "format"
    /\ pass = 1
    /\ formatOptions' = formatOptionsOf(docOptions, sourceText)
    /\ formatted' = IF errors # <<>> THEN formatted
                    ELSE formatDocument(children, formatOptions')
    /\ IF errors # <<>> \/ hasFormattingIssues(sourceText, formatted')
       THEN /\ result' = formatWithBasicRulesText(sourceText, basicOptionsOf(docOptions))
            /\ route' = "fallback"
       ELSE /\ result' = formatted'
            /\ route' = "structural"
    /\ pc' = "done"
    /\ UNCHANGED <<sourceText, docOptions, tokens, tokenIndex, frames, children, stuck, pass,
                   original, again, errors>>

\* the idempotence test's second call on the first output: a new parser on it
formatAgain ==
    /\ pc = "done"
    /\ pass = 1
    /\ route = "structural"
    /\ sourceText' = result
    /\ tokens' = tokenizeAll(result)
    /\ tokenIndex' = 0
    /\ children' = <<>>
    /\ pass' = 2
    /\ pc' = "document"
    /\ UNCHANGED <<docOptions, formatOptions, frames, stuck, original, formatted, result,
                   route, again, errors>>

\* the second call's formatDocument, with the options of the first
formatAgainFinish ==
    /\ pc = "format"
    /\ pass = 2
    /\ again' = formatDocument(children, formatOptions)
    /\ pc' = "done"
    /\ UNCHANGED <<sourceText, docOptions, formatOptions, tokens, tokenIndex, frames,
                   children, stuck, pass, original, formatted, result, route, errors>>

(***************************************************************************)
(* Inputs and the specification of the provider's run                      *)
(***************************************************************************)

ArkCorpus ==
    { <<"f", "u", "n", "c", "t", "i", "o", "n", " ", "f", "(", "1", ")", " ", "{", "}">>,
      <<"f", "u", "n", "c", "t", "i", "o", "n", " ", "f", "(", "a", ":", " ", "n", "u", "m", "b", "e", "r", ",", " ", "b", " ", "=", " ", "2", ")", ":", " ", "v", "o", "i", "d", " ", "{", "\n", " ", " ", "r", "e", "t", "u", "r", "n", "\n", "}", "\n">>,
      <<"s", "t", "r", "u", "c", "t", " ", "A", " ", "{", "\n", " ", "x", " ", "=", " ", "1", " ", "/", "/", " ", "c", "\n", " ", "y", " ", "=", " ", "2", ";", "\n", "}", "\n">>,
      <<"@", "E", "n", "t", "r", "y", "\n", "@", "C", "o", "m", "p", "o", "n", "e", "n", "t", "\n", "s", "t", "r", "u", "c", "t", " ", "A", " ", "{", "\n", " ", " ", "@", "S", "t", "a", "t", "e", " ", "x", ":", " ", "n", "u", "m", "b", "e", "r", " ", "=", " ", "1", "\n", " ", " ", "b", "u", "i", "l", "d", "(", ")", " ", "{", "\n", " ", " ", " ", " ", "T", "e", "x", "t", "(", "'", "a", "'", ")", "\n", " ", " ", " ", " ", " ", " ", ".", "w", "i", "d", "t", "h", "(", "1", ")", "\n", " ", " ", "}", "\n", "}", "\n">>,
      <<"f", "o", "o">>,
      <<"'", "{", "}", "'", " ", "i", "n", "t", "e", "r", "f", "a", "c", "e", " ", "A">>,
      <<"i", "m", "p", "o", "r", "t", " ", "a", ",", " ", "{", " ", "b", ",", " ", "c", " ", "}", " ", "f", "r", "o", "m", " ", "'", "m", "'", "\n">>,
      <<"e", "x", "p", "o", "r", "t", " ", "d", "e", "f", "a", "u", "l", "t", " ", "c", "l", "a", "s", "s", " ", "B", " ", "e", "x", "t", "e", "n", "d", "s", " ", "C", " ", "i", "m", "p", "l", "e", "m", "e", "n", "t", "s", " ", "D", ",", " ", "E", " ", "{", "\n", " ", " ", "p", "r", "i", "v", "a", "t", "e", " ", "m", "(", "p", ":", " ", "T", ")", ":", " ", "v", "o", "i", "d", " ", "{", "}", "\n", "}">>,
      <<"t", "y", "p", "e", " ", "M", " ", "=", " ", "M", "a", "p", "<", "s", "t", "r", "i", "n", "g", ",", " ", "A", "r", "r", "a", "y", "<", "n", "u", "m", "b", "e", "r", ">", ">", "\n", "l", "e", "t", " ", "x", "\n">>,
      <<"s", "t", "r", "u", "c", "t", " ", "A", " ", "{", " ", "x", ":", " ", "B", "<", "C", "<", "D", ">", ">", " ", "}", "\n">>,
      <<"n", "a", "m", "e", "s", "p", "a", "c", "e", " ", "N", " ", "{", "}">> }

DocOptions ==
    { [tabSize |-> 2, insertSpaces |-> TRUE, eol |-> <<"\n">>],
      [tabSize |-> 4, insertSpaces |-> FALSE, eol |-> <<"\r", "\n">>] }

\* pieces of source text the generated inputs are put together from
ArkSnippets ==
    { <<"s", "t", "r", "u", "c", "t", " ", "A", " ", "{">>, <<"}">>, <<"\n">>, <<"x", " ", "=", " ", "1", ";">>, <<" ", "/", "/", " ", "c">>, <<"f", "u", "n", "c", "t", "i", "o", "n", " ", "f", "(", "a", ")", " ", "{">>,
      <<"'", "{", "'">>, <<"f", "o", "o", " ">>, <<"/", "*", " ", "}", " ", "*", "/">>, <<"b", "u", "i", "l", "d", "(", ")", " ", "{">>, <<"g", "e", "t", " ", "x", "(">>, <<"c", "l", "a", "s", "s", " ", "B", " ", "{">> }

\* the longest generated input, in snippets
MaxSnippets == 2

\* the texts made of at most n snippets
RECURSIVE SnippetTexts(_)
SnippetTexts(n) ==
    IF n = 0 THEN {<<>>}
    ELSE SnippetTexts(n - 1) \cup {t \o s : t \in SnippetTexts(n - 1), s \in ArkSnippets}

ArkInputs == ArkCorpus \cup SnippetTexts(MaxSnippets)

ArkInit ==
    /\ original \in ArkInputs
    /\ docOptions \in DocOptions
    /\ sourceText = original
    /\ formatOptions = DEFAULT_FORMAT_OPTIONS
    /\ tokens = <<>>
    /\ tokenIndex = 0
    /\ pc = "provide"
    /\ frames = <<>>
    /\ children = <<>>
    /\ stuck = 0
    /\ pass = 1
    /\ formatted = <<>>
    /\ result = <<>>
    /\ route = ""
    /\ again = <<>>
    /\ errors = <<>>

ArkNext ==
    \/ provideStart
    \/ parseDocumentLoop
    \/ parseDocumentExit
    \/ parseMembersLoop
    \/ parseMembersExit
    \/ parseParametersLoop
    \/ parseParametersExit
    \/ provideFinish
    \/ formatAgain
    \/ formatAgainFinish

SpecArk == ArkInit /\ [][ArkNext]_arkVars

(***************************************************************************)
(* Properties of the provider's run                                        *)
(***************************************************************************)

ParserLoops == {"document", "members", "parameters"}

\* C1: every iteration of a parser loop (top level, member list, parameter list)
\* that stays in its loop leaves the cursor on a later token, so parseDocument
\* terminates on every input.
C1_LoopsConsume ==
    [][(pc \in ParserLoops /\ pc' = pc) => tokenIndex' > tokenIndex]_arkVars

\* the values of the Identifier and Keyword tokens of toks, in order
RECURSIVE wordsOf(_)
wordsOf(toks) ==
    IF toks = <<>> THEN <<>>
    ELSE (IF Head(toks).type \in {"Identifier", "Keyword"} THEN <<Head(toks).value>>
          ELSE <<>>) \o wordsOf(Tail(toks))

\* a is a subsequence of b: the elements of a occur in b in the same relative order
RECURSIVE IsSubsequence(_, _)
IsSubsequence(a, b) ==
    IF a = <<>> THEN TRUE
    ELSE IF b = <<>> THEN FALSE
    ELSE IF Head(a) = Head(b) THEN IsSubsequence(Tail(a), Tail(b))
    ELSE IsSubsequence(a, Tail(b))

\* C2: when the provider returns the structural formatter's output, every identifier
\* and keyword token of the input appears in the output, in the same relative order.
C2_NoContentLost ==
    (pc = "done" /\ pass = 1 /\ route = "structural")
        => IsSubsequence(wordsOf(tokens), wordsOf(tokenizeAll(result)))

\* C3: the provider returns the structural output only if detectComplexSyntax is
\* false (checked before any parser is built), the parser's error list is empty and
\* hasFormattingIssues is false, in which case the result is formatDocument's text;
\* otherwise the result is exactly the basic fallback formatter's text for the input.
C3_RoutingOrder ==
    pc = "done" =>
        /\ route \in {"structural", "fallback"}
        /\ route = "structural" =>
              /\ ~detectComplexSyntax(original)
              /\ errors = <<>>
              /\ countComments(formatted, 0) >= countComments(original, 0)
              /\ CountIn(original, {"{", "}"}) = CountIn(formatted, {"{", "}"})
              /\ result = formatted
        /\ route = "fallback" =>
              result = formatWithBasicRulesText(original, basicOptionsOf(docOptions))
        /\ detectComplexSyntax(original) =>
              /\ route = "fallback"
              /\ tokens = <<>>
              /\ children = <<>>
        /\ (/\ ~detectComplexSyntax(original)
            /\ (\/ countComments(formatted, 0) < countComments(original, 0)
                \/ CountIn(original, {"{", "}"}) # CountIn(formatted, {"{", "}"})))
              => route = "fallback"

\* C3 witness: a run whose input passed the complexity pre-check and parsed without
\* errors, and whose structural output was discarded by the post-format check
C3_FallbackAfterFormat ==
    /\ pc = "done"
    /\ ~detectComplexSyntax(original)
    /\ tokens # <<>>
    /\ route = "fallback"
    /\ formatted # <<>>
    /\ result # formatted

\* C6: formatting the structural output again with the same options yields it unchanged.
C6_StructuralIdempotent ==
    (pc = "done" /\ pass = 2) => again = result

\* the number of "{" and "}" characters of text that lie outside the string literals
\* among its tokens toks
bracesOutside(text, toks) ==
    Cardinality({k \in 1..Len(text) :
                    /\ text[k] \in {"{", "}"}
                    /\ ~\E t \in 1..Len(toks) :
                          /\ toks[t].type \in {"String", "TemplateString"}
                          /\ toks[t].start < k /\ k <= toks[t].end})

bracesOutsideStrings(text) == bracesOutside(text, tokenizeAll(text))

\* C7: when the structural output differs from the input in the number of braces
\* outside string literals, the provider returns the fallback's result.
C7_BraceGuard ==
    (/\ pc = "done"
     /\ pass = 1
     /\ formatted # <<>>
     /\ bracesOutsideStrings(original) # bracesOutsideStrings(formatted))
        => route = "fallback"

(***************************************************************************)
(* The fallback formatter on its own: formatWithBasicRulesText applied to  *)
(* a text, and applied again to what it returned.                          *)
(***************************************************************************)

\* the lines the inputs of the fallback formatter are put together from
BasicLines == { <<".", "b">>, <<"/", "*", "*">>, <<".", "x", " ", "*", "/">>, <<".", "c">>, <<" ", " ", "f", "o", "o", " ", "{">>, <<"}">>, <<>> }

\* the longest input of the fallback formatter, in lines
MaxBasicLines == 4

BasicLineSeqs == UNION {[1..n -> BasicLines] : n \in 1..MaxBasicLines}

BasicInit ==
    /\ docOptions \in DocOptions
    /\ \E lines \in BasicLineSeqs : original = Join(lines, docOptions.eol)
    /\ sourceText = original
    /\ formatOptions = DEFAULT_FORMAT_OPTIONS
    /\ tokens = <<>>
    /\ tokenIndex = 0
    /\ pc = "basic"
    /\ frames = <<>>
    /\ children = <<>>
    /\ stuck = 0
    /\ pass = 1
    /\ formatted = <<>>
    /\ result = <<>>
    /\ route = "fallback"
    /\ again = <<>>
    /\ errors = <<>>

\* formatWithBasicRules: the fallback formatter on the document's text
formatWithBasicRules ==
    /\ pc = "basic"
    /\ result' = formatWithBasicRulesText(sourceText, basicOptionsOf(docOptions))
    /\ pc' = "basicDone"
    /\ UNCHANGED <<sourceText, docOptions, formatOptions, tokens, tokenIndex, frames,
                   children, stuck, pass, original, formatted, route, again, errors>>

\* the fallback formatter on its own output, with the same options
formatWithBasicRulesAgain ==
    /\ pc = "basicDone"
    /\ sourceText' = result
    /\ again' = formatWithBasicRulesText(result, basicOptionsOf(docOptions))
    /\ pass' = 2
    /\ pc' = "basicAgain"
    /\ UNCHANGED <<docOptions, formatOptions, tokens, tokenIndex, frames, children, stuck,
                   original, formatted, result, route, errors>>

BasicNext == formatWithBasicRules \/ formatWithBasicRulesAgain

SpecBasic == BasicInit /\ [][BasicNext]_arkVars

\* the trimmed texts of the lines of text, in order, without the blank ones
RECURSIVE trimmedNonBlank(_)
trimmedNonBlank(lines) ==
    IF lines = <<>> THEN <<>>
    ELSE (IF Trim(Head(lines)) = <<>> THEN <<>> ELSE <<Trim(Head(lines))>>)
         \o trimmedNonBlank(Tail(lines))

\* C4: every non-blank line of the fallback formatter's output has the trimmed text of a
\* line of the input, and these lines keep their relative order.
C4_ContentPreserved ==
    pc = "basicDone"
        => IsSubsequence(trimmedNonBlank(SplitLines(result)),
                         trimmedNonBlank(SplitLines(original)))

\* C5: the fallback formatter applied to its own output returns that output unchanged.
C5_BasicIdempotent ==
    pc = "basicAgain" => again = result

(***************************************************************************)
(* consumeBalanced on its own: a parser is built on a text, its cursor is  *)
(* advanced to a token that holds an opening delimiter, and                *)
(* consumeBalanced is called there.                                        *)
(***************************************************************************)

\* the pieces the texts of this specification are put together from
BalancedPieces == { <<"<">>, <<">">>, <<">", ">">>, <<"a">>, <<"{">>, <<"}">>, <<"(">>, <<")">>, <<"/", "*", ">", "*", "/">> }

\* the longest text, in pieces
MaxPieces == 4

RECURSIVE PieceTexts(_)
PieceTexts(n) ==
    IF n = 0 THEN {<<>>}
    ELSE PieceTexts(n - 1) \cup {t \o s : t \in PieceTexts(n - 1), s \in BalancedPieces}

\* the delimiter pairs consumeBalanced is called with
DelimiterPairs == { <<"{", "}">>, <<"(", ")">>, <<"<", ">">> }

\* after new ArkTSParser(text)
BalancedInit ==
    /\ original \in PieceTexts(MaxPieces)
    /\ docOptions \in {d \in DocOptions : d.tabSize = 2}
    /\ sourceText = original
    /\ formatOptions = DEFAULT_FORMAT_OPTIONS
    /\ tokens = tokenizeAll(original)
    /\ tokenIndex = 0
    /\ pc = "cursor"
    /\ frames = <<>>
    /\ children = <<>>
    /\ stuck = 0
    /\ pass = 1
    /\ formatted = <<>>
    /\ result = <<>>
    /\ route = ""
    /\ again = <<>>
    /\ errors = <<>>

\* advance(), called by the parser while tokens are left
advance ==
    /\ pc = "cursor"
    /\ ~isEOF(tokenIndex)
    /\ tokenIndex' = tokenIndex + 1
    /\ UNCHANGED <<sourceText, docOptions, formatOptions, tokens, pc, frames, children,
                   stuck, pass, original, formatted, result, route, again, errors>>

\* consumeBalanced(open, close) called with the cursor on a token whose value is open;
\* frames keeps the call: where the cursor was and the pair
callConsumeBalanced ==
    /\ pc = "cursor"
    /\ \E pair \in DelimiterPairs :
         /\ isValue(tokenIndex, pair[1])
         /\ \E b \in {consumeBalanced(tokenIndex, pair[1], pair[2])} :
              /\ result' = b.text
              /\ tokenIndex' = b.idx
         /\ frames' = <<[at |-> tokenIndex, open |-> pair[1], close |-> pair[2]]>>
    /\ pc' = "consumed"
    /\ UNCHANGED <<sourceText, docOptions, formatOptions, tokens, children, stuck, pass,
                   original, formatted, route, again, errors>>

BalancedNext == advance \/ callConsumeBalanced

SpecBalanced == BalancedInit /\ [][BalancedNext]_arkVars

\* the offsets of the characters of the source text that are a delimiter of the set and
\* belong to a Punctuator or Operator token: a delimiter inside a string or a comment is
\* text, not a delimiter
delimitersAt(set) ==
    {p \in 0..(Len(sourceText) - 1) :
        /\ At(sourceText, p) \in set
        /\ \E k \in 1..Len(tokens) :
             /\ tokens[k].type \in {"Punctuator", "Operator"}
             /\ tokens[k].start <= p /\ p < tokens[k].end}

\* the nesting depth of the pair after the character at offset q, counted from offset p
depthFrom(p, q, open, close) ==
    Cardinality({x \in delimitersAt({open}) : p <= x /\ x <= q})
        - Cardinality({x \in delimitersAt({close}) : p <= x /\ x <= q})

\* the offsets at which the delimiter opened at offset p is closed: the least of them is
\* its matching closer
closersOf(p, open, close) ==
    {q \in delimitersAt({close}) : q > p /\ depthFrom(p, q, open, close) = 0}

\* C10: called at an opening delimiter that has a matching closer, consumeBalanced
\* returns the source text from the delimiter through that closer and leaves the cursor
\* on the token that starts just after it.
C10_BalancedSlice ==
    (pc = "consumed" /\ closersOf(tokenAt(frames[1].at).start, frames[1].open,
                                  frames[1].close) # {})
        => LET p == tokenAt(frames[1].at).start
               q == MinOf(closersOf(p, frames[1].open, frames[1].close))
           IN  /\ result = Slice(sourceText, p, q + 1)
               /\ tokenAt(tokenIndex - 1).end = q + 1

(***************************************************************************)
(* HmlLexer.  The lexer's state is its index and its mode stack; a token   *)
(* is kept with the mode stack the lexer has after reading it, and the     *)
(* index after a token is its end.  A token's value is a text.             *)
(***************************************************************************)

\* the characters skipWhitespace steps over
HmlWhite == {" ", "\t", "\r", "\n"}

\* isNameStart, isNameChar
NameStart == Letters \cup {"_", ":", "-"}

NameChars == Letters \cup Digits \cup {"_", ":", "-", "."}

OctDigits == {"0", "1", "2", "3", "4", "5", "6", "7"}

\* the operators table of readOperatorOrPunctuator, in its order
HmlOperatorTable ==
    << <<"=", "=", "=">>, <<"!", "=", "=">>, <<"=", "=">>, <<"!", "=">>, <<">", "=">>, <<"<", "=">>, <<"&", "&">>, <<"|", "|">>, <<"+", "+">>, <<"-", "-">>,
       <<"+", "=">>, <<"-", "=">>, <<"*", "=">>, <<"/", "=">>, <<"%", "=">>, <<"=", ">">>, <<"<", "<">>, <<">", ">">>, <<">", ">", ">">>,
       <<"+">>, <<"-">>, <<"*">>, <<"/">>, <<"%">>, <<">">>, <<"<">>, <<"!">>, <<"~">>, <<"?">>, <<":">>, <<"=">>,
       <<"&">>, <<"|">>, <<"^">>, <<".">>, <<",">>, <<"(">>, <<")">>, <<"[">>, <<"]">>, <<"{">>, <<"}">> >>

\* the values isOperator's regular expression matches
isOperatorValue(value) ==
    /\ \E k \in 1..Len(HmlOperatorTable) : HmlOperatorTable[k] = value
    /\ value \notin {<<",">>, <<"(">>, <<")">>, <<"[">>, <<"]">>, <<"{">>, <<"}">>}

pushMode(modes, mode) == Append(modes, mode)

\* popMode with every mode popped
modesCleared(modes) == <<>>

popMode(modes) == IF Len(modes) > 1 THEN SubSeq(modes, 1, Len(modes) - 1) ELSE modes

createToken(type, value, start, end, modes) ==
    [type |-> type, value |-> value, start |-> start, end |-> end, modes |-> modes]

\* createToken(type, this.text.slice(start, this.index), start, this.index)
sliceToken(text, type, start, end, modes) ==
    createToken(type, Slice(text, start, end), start, Min(end, Len(text)), modes)

\* the first offset >= i at which text has value, Len(text) when there is none: where
\* "while (this.index < this.text.length && !this.match(value)) this.advance(1)" stops
firstMatch(text, value, i) ==
    firstOf({q \in i..Len(text) : StartsWithAt(text, value, q) \/ q = Len(text)})

readComment(text, i, modes) ==
    LET to(e) ==
            IF StartsWithAt(text, <<"-", "-", ">">>, e)
            THEN createToken("Comment", Slice(text, i + 4, e), i, e + 3, modes)
            ELSE createToken("Comment", SliceFrom(text, i + 4), i, e, modes)
    IN  to(firstMatch(text, <<"-", "-", ">">>, i + 4))

\* the loop of readString from offset p, after the opening quote: the offset it ends at
RECURSIVE stringEnd(_, _, _)
stringEnd(text, p, quote) ==
    LET at(q) ==
            IF q >= Len(text) THEN Len(text)
            ELSE IF text[q + 1] = quote THEN q + 1
            \* a backslash: it and the character after it are stepped over
            ELSE stringEnd(text, Min(q + 2, Len(text)), quote)
    IN  at(ScanUntil(text, p, {quote, "\\"}))

readString(text, i, modes) ==
    sliceToken(text, "String", i, stringEnd(text, i + 1, At(text, i)), modes)

readName(text, i, modes) ==
    sliceToken(text, "Name", i, ScanWhile(text, i + 1, NameChars), modes)

readIdentifier(text, i, modes) ==
    LET of(value) ==
            createToken(IF value \in {<<"t", "r", "u", "e">>, <<"f", "a", "l", "s", "e">>} THEN "Boolean"
                        ELSE IF value = <<"n", "u", "l", "l">> THEN "Null"
                        ELSE IF value = <<"u", "n", "d", "e", "f", "i", "n", "e", "d">> THEN "Undefined"
                        ELSE "Identifier",
                        value, i, i + Len(value), modes)
    IN  of(Slice(text, i, ScanWhile(text, i + 1, IdentPart)))

readNumber(text, i, modes) ==
    LET \* d is the offset after the digits that follow "e" and an optional sign
        exponent(s) == ScanWhile(text, IF At(text, s) \in {"+", "-"} THEN s + 1 ELSE s, Digits)
        \* d is the offset after the fraction
        afterFraction(d) == IF At(text, d) \in {"e", "E"} THEN exponent(d + 1) ELSE d
        \* d is the offset after the integer digits
        afterDigits(d) ==
            afterFraction(IF At(text, d) = "." THEN ScanWhile(text, d + 1, Digits) ELSE d)
        end == IF StartsWithAt(text, <<"0", "x">>, i) \/ StartsWithAt(text, <<"0", "X">>, i)
               THEN ScanWhile(text, i + 2, HexDigits)
               ELSE IF StartsWithAt(text, <<"0", "b">>, i) \/ StartsWithAt(text, <<"0", "B">>, i)
                    THEN ScanWhile(text, i + 2, {"0", "1"})
               ELSE IF StartsWithAt(text, <<"0", "o">>, i) \/ StartsWithAt(text, <<"0", "O">>, i)
                    THEN ScanWhile(text, i + 2, OctDigits)
               ELSE afterDigits(ScanWhile(text, i, Digits))
    IN  sliceToken(text, "Number", i, end, modes)

\* readOperatorOrPunctuator: the first entry of the table the text has at offset i,
\* <<>> (null) when it has none
readOperatorOrPunctuator(text, i) ==
    LET of(k) == IF k < 0 THEN <<>> ELSE HmlOperatorTable[k]
    IN  of(firstOf({k \in 1..Len(HmlOperatorTable) :
                       StartsWithAt(text, HmlOperatorTable[k], i)}))

readDataToken(text, i, modes) ==
    IF StartsWithAt(text, <<"<", "!", "-", "-">>, i) THEN readComment(text, i, modes)
    ELSE IF StartsWithAt(text, <<"{", "{">>, i)
         THEN createToken("InterpolationStart", <<"{", "{">>, i, i + 2, pushMode(modes, "interp"))
    ELSE IF StartsWithAt(text, <<"<", "/">>, i)
         THEN createToken("TagClose", <<"<", "/">>, i, i + 2, pushMode(modes, "tag"))
    ELSE IF At(text, i) = "<"
         THEN createToken("TagOpen", <<"<">>, i, i + 1, pushMode(modes, "tag"))
    ELSE sliceToken(text, "Text", i,
                    firstOf({q \in i..Len(text) :
                                \/ q = Len(text)
                                \/ At(text, q) = "<"
                                \/ StartsWithAt(text, <<"{", "{">>, q)}),
                    modes)

readTagToken(text, i, modes) ==
    LET \* j is the index after skipWhitespace
        at(j) ==
            IF StartsWithAt(text, <<"/", ">">>, j)
            THEN createToken("TagSelfClose", <<"/", ">">>, j, j + 2, popMode(modes))
            ELSE IF At(text, j) = ">"
                 THEN createToken("TagEnd", <<">">>, j, j + 1, popMode(modes))
            ELSE IF StartsWithAt(text, <<"{", "{">>, j)
                 THEN createToken("InterpolationStart", <<"{", "{">>, j, j + 2,
                                  pushMode(modes, "interp"))
            ELSE IF At(text, j) = "=" THEN createToken("Equals", <<"=">>, j, j + 1, modes)
            ELSE IF At(text, j) \in {"\"", "'"} THEN readString(text, j, modes)
            ELSE IF j >= Len(text) THEN createToken("EOF", <<>>, j, j, modes)
            ELSE IF At(text, j) \in NameStart THEN readName(text, j, modes)
            ELSE sliceToken(text, "UnquotedValue", j, j + 1, modes)
    IN  at(ScanWhile(text, i, HmlWhite))

RECURSIVE readInterpolationToken(_, _, _)
readInterpolationToken(text, i, modes) ==
    LET \* an operator or punctuator of the table, or one character as a Punctuator
        symbol(j, operator) ==
            IF operator # <<>>
            THEN createToken(IF isOperatorValue(operator) THEN "Operator" ELSE "Punctuator",
                             operator, j, j + Len(operator), modes)
            ELSE sliceToken(text, "Punctuator", j, j + 1, modes)
        \* e is where the scan for the end of a block comment stopped
        afterBlockComment(e) ==
            readInterpolationToken(text, IF StartsWithAt(text, <<"*", "/">>, e) THEN e + 2 ELSE e,
                                   modes)
        \* j is the index after skipWhitespace
        at(j) ==
            IF StartsWithAt(text, <<"}", "}">>, j)
            THEN createToken("InterpolationEnd", <<"}", "}">>, j, j + 2, popMode(modes))
            ELSE IF StartsWithAt(text, <<"/", "/">>, j)
                 THEN readInterpolationToken(text, ScanUntil(text, j + 2, {"\n"}), modes)
            ELSE IF StartsWithAt(text, <<"/", "*">>, j)
                 THEN afterBlockComment(firstMatch(text, <<"*", "/">>, j + 2))
            ELSE IF j >= Len(text) THEN createToken("EOF", <<>>, j, j, modes)
            ELSE IF At(text, j) \in IdentStart THEN readIdentifier(text, j, modes)
            ELSE IF At(text, j) \in Digits
                    \/ (At(text, j) = "." /\ At(text, j + 1) \in Digits)
                 THEN readNumber(text, j, modes)
            ELSE IF At(text, j) \in {"\"", "'"} THEN readString(text, j, modes)
            ELSE symbol(j, readOperatorOrPunctuator(text, j))
    IN  at(ScanWhile(text, i, HmlWhite))

nextTokenInternal(text, i, modes) ==
    IF i >= Len(text) THEN createToken("EOF", <<>>, i, i, modes)
    ELSE IF modes[Len(modes)] = "data" THEN readDataToken(text, i, modes)
    ELSE IF modes[Len(modes)] = "tag" THEN readTagToken(text, i, modes)
    ELSE readInterpolationToken(text, i, modes)

\* the tokens nextToken returns one after the other, from index i and mode stack modes, up
\* to the first EOF token (every later call returns an EOF token again)
RECURSIVE hmlTokensFrom(_, _, _)
hmlTokensFrom(text, i, modes) ==
    LET of(t) == IF t.type = "EOF" THEN <<t>>
                 ELSE <<t>> \o hmlTokensFrom(text, t.end, t.modes)
    IN  of(nextTokenInternal(text, i, modes))

\* the tokens of a new HmlLexer(text)
hmlTokens(text) == hmlTokensFrom(text, 0, <<"data">>)

(***************************************************************************)
(* HmlParser.  tokens holds the tokens the lexer returns one after the     *)
(* other and tokenIndex says which of them is this.current (the lexer is   *)
(* not fed by the parser, so reading ahead changes nothing).  A parse      *)
(* function takes the index of the current token and returns the index it  *)
(* leaves and the errors it reported, in order.                            *)
(***************************************************************************)

\* no tag is a void tag
noVoidTags == {}

VOID_TAGS ==
    { <<"a", "r", "e", "a">>, <<"b", "a", "s", "e">>, <<"b", "r">>, <<"c", "o", "l">>, <<"e", "m", "b", "e", "d">>, <<"h", "r">>, <<"i", "m", "g">>, <<"i", "n", "p", "u", "t">>, <<"l", "i", "n", "k">>,
      <<"m", "e", "t", "a">>, <<"p", "a", "r", "a", "m">>, <<"s", "o", "u", "r", "c", "e">>, <<"t", "r", "a", "c", "k">>, <<"w", "b", "r">> }

ASSIGNMENT_OPERATORS == { <<"=">>, <<"+", "=">>, <<"-", "=">>, <<"*", "=">>, <<"/", "=">>, <<"%", "=">> }

EQUALITY_OPERATORS == { <<"=", "=">>, <<"!", "=">>, <<"=", "=", "=">>, <<"!", "=", "=">> }

RELATIONAL_OPERATORS == { <<"<">>, <<">">>, <<"<", "=">>, <<">", "=">> }

ADDITIVE_OPERATORS == { <<"+">>, <<"-">> }

MULTIPLICATIVE_OPERATORS == { <<"*">>, <<"/">>, <<"%">> }

UNARY_OPERATORS == { <<"+">>, <<"-">>, <<"!">>, <<"~">> }

\* this.current when tokenIndex = i
currentAt(i) == tokens[Min(i, Len(tokens) - 1) + 1]

isCurrent(i, type) == currentAt(i).type = type

isOperatorToken(i, value) == isCurrent(i, "Operator") /\ currentAt(i).value = value

isPunctuatorToken(i, value) == isCurrent(i, "Punctuator") /\ currentAt(i).value = value

\* advance(): after the EOF token the lexer returns an EOF token again
advanceFrom(i) == IF isCurrent(i, "EOF") THEN i ELSE i + 1

\* reportError(message, this.current) with tokenIndex = i, as the list of what it pushes;
\* a message is its characters (a token type in it is one element, its name)
reportError(message, i) == <<[message |-> message, token |-> i]>>

expect(i, type) ==
    IF isCurrent(i, type) THEN [idx |-> advanceFrom(i), errs |-> <<>>]
    ELSE [idx |-> i, errs |-> reportError(<<"E", "x", "p", "e", "c", "t", "e", "d", " ", "t", "o", "k", "e", "n", " ">> \o <<type>>, i)]

expectOperator(i, operator) ==
    IF isOperatorToken(i, operator) THEN [idx |-> advanceFrom(i), errs |-> <<>>]
    ELSE [idx |-> i, errs |-> reportError(<<"E", "x", "p", "e", "c", "t", "e", "d", " ", "o", "p", "e", "r", "a", "t", "o", "r", " ">> \o operator, i)]

expectPunctuator(i, punctuator) ==
    IF isPunctuatorToken(i, punctuator) THEN [idx |-> advanceFrom(i), errs |-> <<>>]
    ELSE [idx |-> i, errs |-> reportError(<<"E", "x", "p", "e", "c", "t", "e", "d", " ", "p", "u", "n", "c", "t", "u", "a", "t", "o", "r", " ">> \o punctuator, i)]

RECURSIVE consumeUntil(_, _)
consumeUntil(i, type) ==
    IF ~isCurrent(i, "EOF") /\ ~isCurrent(i, type) THEN consumeUntil(advanceFrom(i), type)
    ELSE i

\* tokenToLiteral: value is a function of the token's type and raw text
tokenToLiteral(token) == [type |-> "Literal", of |-> token.type, raw |-> token.value]

identifierNode(name) == [type |-> "Identifier", name |-> name]

\* an expression parsed without a token and without an error
parsed(node, i) == [node |-> node, idx |-> i, errs |-> <<>>]

\* the operators and the node type of parseLogicalOr, parseLogicalAnd, parseEquality,
\* parseRelational, parseAdditive and parseMultiplicative, from the loosest
BinaryLevels ==
    << [operators |-> {<<"|", "|">>}, type |-> "LogicalExpression"],
       [operators |-> {<<"&", "&">>}, type |-> "LogicalExpression"],
       [operators |-> EQUALITY_OPERATORS, type |-> "BinaryExpression"],
       [operators |-> RELATIONAL_OPERATORS, type |-> "BinaryExpression"],
       [operators |-> ADDITIVE_OPERATORS, type |-> "BinaryExpression"],
       [operators |-> MULTIPLICATIVE_OPERATORS, type |-> "BinaryExpression"] >>

RECURSIVE parseExpression(_)
RECURSIVE parseAssignment(_)
RECURSIVE parseConditional(_)
RECURSIVE parseBinary(_, _)
RECURSIVE binaryLoop(_, _)
RECURSIVE parseUnary(_)
RECURSIVE parsePostfix(_)
RECURSIVE postfixLoop(_)
RECURSIVE parsePrimary(_)
RECURSIVE listLoop(_, _, _, _)
RECURSIVE parseList(_, _, _, _)
RECURSIVE parseArguments(_)
RECURSIVE parseArray(_)
RECURSIVE objectLoop(_, _)
RECURSIVE parseObject(_)
RECURSIVE parsePropertyKey(_)

parseExpression(i) ==
    IF isCurrent(i, "InterpolationEnd")
    THEN parsed([type |-> "Literal", of |-> "Null", raw |-> <<"n", "u", "l", "l">>], i)
    ELSE parseAssignment(i)

parseAssignment(i) ==
    LET of(left, operator, right) ==
            [node |-> [type |-> "AssignmentExpression", operator |-> operator,
                       left |-> left.node, right |-> right.node],
             idx |-> right.idx,
             errs |-> left.errs \o right.errs]
        afterLeft(left) ==
            IF /\ isCurrent(left.idx, "Operator")
               /\ currentAt(left.idx).value \in ASSIGNMENT_OPERATORS
            THEN of(left, currentAt(left.idx).value, parseAssignment(advanceFrom(left.idx)))
            ELSE left
    IN  afterLeft(parseConditional(i))

parseConditional(i) ==
    LET of(test, consequent, colon, alternate) ==
            [node |-> [type |-> "ConditionalExpression", test |-> test.node,
                       consequent |-> consequent.node, alternate |-> alternate.node],
             idx |-> alternate.idx,
             errs |-> test.errs \o consequent.errs \o colon.errs \o alternate.errs]
        afterColon(test, consequent, colon) ==
            of(test, consequent, colon, parseExpression(colon.idx))
        afterConsequent(test, consequent) ==
            afterColon(test, consequent, expectOperator(consequent.idx, <<":">>))
        afterTest(test) ==
            IF isOperatorToken(test.idx, <<"?">>)
            THEN afterConsequent(test, parseExpression(advanceFrom(test.idx)))
            ELSE test
    IN  afterTest(parseBinary(1, i))

\* the level of the binary operator at index i, 0 when there is none
levelAt(i) ==
    IF ~isCurrent(i, "Operator") THEN 0
    ELSE MaxOf({0} \cup {k \in 1..Len(BinaryLevels) :
                            currentAt(i).value \in BinaryLevels[k].operators})

\* the parse function of a level and of the levels that bind tighter: parseLogicalOr is
\* parseBinary(1, i), parseMultiplicative parseBinary(6, i).  Each function of the source
\* calls the next one for its operands and loops on its own operators; the operand at the
\* bottom is parseUnary's and the operator met after it says which loop takes it
parseBinary(level, i) == binaryLoop(level, parseUnary(i))

\* the loops of the levels from level on with left parsed: an operator of level k >= level
\* is taken by the loop of level k, whose right operand is parsed by level k + 1
binaryLoop(level, left) ==
    LET join(k, operator, right) ==
            binaryLoop(level,
                       [node |-> [type |-> BinaryLevels[k].type, operator |-> operator,
                                  left |-> left.node, right |-> right.node],
                        idx |-> right.idx,
                        errs |-> left.errs \o right.errs])
        at(k) ==
            IF k >= level
            THEN join(k, currentAt(left.idx).value, parseBinary(k + 1, advanceFrom(left.idx)))
            ELSE left
    IN  at(levelAt(left.idx))

parseUnary(i) ==
    LET of(operator, argument) ==
            [node |-> [type |-> "UnaryExpression", operator |-> operator,
                       argument |-> argument.node],
             idx |-> argument.idx,
             errs |-> argument.errs]
    IN  IF isCurrent(i, "Operator") /\ currentAt(i).value \in UNARY_OPERATORS
        THEN of(currentAt(i).value, parseUnary(advanceFrom(i)))
        ELSE parsePostfix(i)

parsePostfix(i) == postfixLoop(parsePrimary(i))

\* the loop of parsePostfix with expr parsed so far
postfixLoop(expr) ==
    LET \* j is the index after "."
        member(j) ==
            IF currentAt(j).type \in {"Identifier", "Name"}
            THEN postfixLoop([node |-> [type |-> "MemberExpression", object |-> expr.node,
                                        property |-> identifierNode(currentAt(j).value),
                                        computed |-> FALSE],
                              idx |-> advanceFrom(j),
                              errs |-> expr.errs])
            ELSE [node |-> expr.node, idx |-> j,
                  errs |-> expr.errs \o reportError(<<"E", "x", "p", "e", "c", "t", "e", "d", " ", "p", "r", "o", "p", "e", "r", "t", "y", " ", "n", "a", "m", "e", " ", "a", "f", "t", "e", "r", " ", ".">>, j)]
        computedOf(property, close) ==
            postfixLoop([node |-> [type |-> "MemberExpression", object |-> expr.node,
                                   property |-> property.node, computed |-> TRUE],
                         idx |-> close.idx,
                         errs |-> expr.errs \o property.errs \o close.errs])
        computed(property) == computedOf(property, expectPunctuator(property.idx, <<"]">>))
        call(args) ==
            postfixLoop([node |-> [type |-> "CallExpression", callee |-> expr.node,
                                   arguments |-> args.items],
                         idx |-> args.idx,
                         errs |-> expr.errs \o args.errs])
    IN  IF isOperatorToken(expr.idx, <<".">>) THEN member(advanceFrom(expr.idx))
        ELSE IF isPunctuatorToken(expr.idx, <<"[">>)
             THEN computed(parseExpression(advanceFrom(expr.idx)))
        ELSE IF isPunctuatorToken(expr.idx, <<"(">>) THEN call(parseArguments(expr.idx))
        ELSE expr

\* the loop of parseArguments and of parseArray: acc holds the items and the errors so far
listLoop(i, close, message, acc) ==
    LET pushed(e) == [items |-> Append(acc.items, e.node), errs |-> acc.errs \o e.errs]
        next(e) ==
            IF isPunctuatorToken(e.idx, <<",">>)
            THEN listLoop(advanceFrom(e.idx), close, message, pushed(e))
            ELSE [items |-> pushed(e).items, idx |-> e.idx, errs |-> pushed(e).errs]
    IN  IF isPunctuatorToken(i, close)
        THEN [items |-> acc.items, idx |-> i, errs |-> acc.errs]
        ELSE IF isCurrent(i, "EOF") \/ isCurrent(i, "InterpolationEnd")
             THEN [items |-> acc.items, idx |-> i, errs |-> acc.errs \o reportError(message, i)]
        ELSE next(parseExpression(i))

\* parseArguments and parseArray: the opening punctuator, the loop, the closing one
parseList(i, open, close, message) ==
    LET closed(list, c) ==
            [items |-> list.items, idx |-> c.idx, errs |-> list.errs \o c.errs]
        looped(list) == closed(list, expectPunctuator(list.idx, close))
        opened(o) == looped(listLoop(o.idx, close, message, [items |-> <<>>, errs |-> o.errs]))
    IN  opened(expectPunctuator(i, open))

parseArguments(i) == parseList(i, <<"(">>, <<")">>, <<"U", "n", "t", "e", "r", "m", "i", "n", "a", "t", "e", "d", " ", "a", "r", "g", "u", "m", "e", "n", "t", " ", "l", "i", "s", "t">>)

parseArray(i) ==
    LET of(list) == [node |-> [type |-> "ArrayExpression", elements |-> list.items],
                     idx |-> list.idx, errs |-> list.errs]
    IN  of(parseList(i, <<"[">>, <<"]">>, <<"U", "n", "t", "e", "r", "m", "i", "n", "a", "t", "e", "d", " ", "a", "r", "r", "a", "y", " ", "l", "i", "t", "e", "r", "a", "l">>))

parsePropertyKey(i) ==
    LET computedOf(expression, close) ==
            [node |-> expression.node, idx |-> close.idx,
             errs |-> expression.errs \o close.errs]
        computed(expression) ==
            computedOf(expression, expectPunctuator(expression.idx, <<"]">>))
    IN  IF currentAt(i).type \in {"Identifier", "Name"}
        THEN parsed(identifierNode(currentAt(i).value), advanceFrom(i))
        ELSE IF currentAt(i).type \in {"String", "Number", "Boolean"}
             THEN parsed(tokenToLiteral(currentAt(i)), advanceFrom(i))
        ELSE IF isPunctuatorToken(i, <<"[">>) THEN computed(parseExpression(advanceFrom(i)))
        ELSE [node |-> identifierNode(<<"_">>), idx |-> advanceFrom(i),
              errs |-> reportError(<<"I", "n", "v", "a", "l", "i", "d", " ", "o", "b", "j", "e", "c", "t", " ", "k", "e", "y">>, i)]

\* the loop of parseObject: acc holds the properties and the errors so far
objectLoop(i, acc) ==
    LET pushed(key, value, shorthand) ==
            [items |-> Append(acc.items, [type |-> "Property", key |-> key.node,
                                          value |-> value.node, shorthand |-> shorthand]),
             errs |-> acc.errs \o key.errs \o value.errs]
        next(j, list) ==
            IF isPunctuatorToken(j, <<",">>) THEN objectLoop(advanceFrom(j), list)
            ELSE [items |-> list.items, idx |-> j, errs |-> list.errs]
        valued(key, value) == next(value.idx, pushed(key, value, FALSE))
        keyed(key) ==
            IF isPunctuatorToken(key.idx, <<":">>)
            THEN valued(key, parseExpression(advanceFrom(key.idx)))
            ELSE next(key.idx, pushed(key, parsed(key.node, key.idx), TRUE))
    IN  IF isPunctuatorToken(i, <<"}">>)
        THEN [items |-> acc.items, idx |-> i, errs |-> acc.errs]
        ELSE IF isCurrent(i, "EOF") \/ isCurrent(i, "InterpolationEnd")
             THEN [items |-> acc.items, idx |-> i,
                   errs |-> acc.errs \o reportError(<<"U", "n", "t", "e", "r", "m", "i", "n", "a", "t", "e", "d", " ", "o", "b", "j", "e", "c", "t", " ", "l", "i", "t", "e", "r", "a", "l">>, i)]
        ELSE keyed(parsePropertyKey(i))

parseObject(i) ==
    LET closed(list, c) ==
            [node |-> [type |-> "ObjectExpression", properties |-> list.items],
             idx |-> c.idx, errs |-> list.errs \o c.errs]
        looped(list) == closed(list, expectPunctuator(list.idx, <<"}">>))
        opened(o) == looped(objectLoop(o.idx, [items |-> <<>>, errs |-> o.errs]))
    IN  opened(expectPunctuator(i, <<"{">>))

parsePrimary(i) ==
    LET groupingOf(expression, close) ==
            [node |-> [type |-> "GroupingExpression", expression |-> expression.node],
             idx |-> close.idx, errs |-> expression.errs \o close.errs]
        grouping(expression) ==
            groupingOf(expression, expectPunctuator(expression.idx, <<")">>))
    IN  IF currentAt(i).type \in {"Identifier", "Name"}
        THEN parsed(identifierNode(currentAt(i).value), advanceFrom(i))
        ELSE IF currentAt(i).type \in {"Boolean", "Null", "Number", "String"}
             THEN parsed(tokenToLiteral(currentAt(i)), advanceFrom(i))
        ELSE IF isPunctuatorToken(i, <<"(">>) THEN grouping(parseExpression(advanceFrom(i)))
        ELSE IF isPunctuatorToken(i, <<"[">>) THEN parseArray(i)
        ELSE IF isPunctuatorToken(i, <<"{">>) THEN parseObject(i)
        ELSE [node |-> identifierNode(<<"_">>), idx |-> advanceFrom(i),
              errs |-> reportError(<<"U", "n", "e", "x", "p", "e", "c", "t", "e", "d", " ", "e", "x", "p", "r", "e", "s", "s", "i", "o", "n", " ", "t", "o", "k", "e", "n">>, i)]

\* the interpolation end after the expression, for parseInterpolation and parseAttribute
interpolationEnd(expression, message) ==
    IF isCurrent(expression.idx, "InterpolationEnd")
    THEN [idx |-> advanceFrom(expression.idx), errs |-> expression.errs]
    ELSE [idx |-> expression.idx,
          errs |-> expression.errs \o reportError(message, expression.idx)]

\* what parseNode returns to the loop that called it: kind = "node" with the node,
\* "null", or "open" when parseElement has reached its children loop with frame
nodeReturned(node, i, errs) == [kind |-> "node", node |-> node, idx |-> i, errs |-> errs]

\* a parseText that returns the Text node and leaves the token where it is
textLeftInPlace(i) ==
    nodeReturned([type |-> "Text", value |-> currentAt(i).value], i, <<>>)

parseText(i) ==
    nodeReturned([type |-> "Text", value |-> currentAt(i).value], advanceFrom(i), <<>>)

parseComment(i) ==
    nodeReturned([type |-> "Comment", value |-> currentAt(i).value], advanceFrom(i), <<>>)

parseInterpolation(i) ==
    LET of(expression, end) ==
            nodeReturned([type |-> "Interpolation", expression |-> expression.node],
                         end.idx, end.errs)
        expressed(expression) ==
            of(expression, interpolationEnd(expression, <<"M", "i", "s", "s", "i", "n", "g", " ", "i", "n", "t", "e", "r", "p", "o", "l", "a", "t", "i", "o", "n", " ", "e", "n", "d">>))
        started(s) == expressed(parseExpression(s.idx))
    IN  started(expect(i, "InterpolationStart"))

parseAttribute(i) ==
    LET name == currentAt(i).value
        expressionOfValue(expression, end) ==
            [attr |-> [name |-> name, valueKind |-> "expression", value |-> <<>>,
                       expression |-> expression.node],
             idx |-> end.idx, errs |-> end.errs]
        expressed(expression) ==
            expressionOfValue(expression,
                              interpolationEnd(expression,
                                               <<"M", "i", "s", "s", "i", "n", "g", " ", "i", "n", "t", "e", "r", "p", "o", "l", "a", "t", "i", "o", "n", " ", "e", "n", "d", " ", "i", "n", " ", "a", "t", "t", "r", "i", "b", "u", "t", "e">>))
        \* v is the index of the value token
        valueAt_(v) ==
            IF isCurrent(v, "String")
            THEN [attr |-> [name |-> name, valueKind |-> "string",
                            value |-> SliceInner(currentAt(v).value),
                            quote |-> IF StartsWith(currentAt(v).value, <<"\"">>)
                                      THEN "\"" ELSE "'"],
                  idx |-> advanceFrom(v), errs |-> <<>>]
            ELSE IF isCurrent(v, "InterpolationStart")
                 THEN expressed(parseExpression(advanceFrom(v)))
            ELSE IF isCurrent(v, "Name") \/ isCurrent(v, "UnquotedValue")
                 THEN [attr |-> [name |-> name, valueKind |-> "unquoted",
                                 value |-> currentAt(v).value],
                       idx |-> advanceFrom(v), errs |-> <<>>]
            ELSE [attr |-> [name |-> name, valueKind |-> "unquoted", value |-> <<>>],
                  idx |-> v, errs |-> reportError(<<"M", "i", "s", "s", "i", "n", "g", " ", "a", "t", "t", "r", "i", "b", "u", "t", "e", " ", "v", "a", "l", "u", "e">>, v)]
        \* e is the index after the name
        named(e) ==
            IF ~isCurrent(e, "Equals")
            THEN [attr |-> [name |-> name, valueKind |-> "boolean"], idx |-> e,
                  errs |-> <<>>]
            ELSE valueAt_(advanceFrom(e))
    IN  named(advanceFrom(i))

\* while (this.current.type === TokenType.Name) attributes.push(this.parseAttribute())
RECURSIVE parseAttributes(_)
parseAttributes(i) ==
    LET rest(a, r) == [attributes |-> <<a.attr>> \o r.attributes, idx |-> r.idx,
                       errs |-> a.errs \o r.errs]
        of(a) == rest(a, parseAttributes(a.idx))
    IN  IF isCurrent(i, "Name") THEN of(parseAttribute(i))
        ELSE [attributes |-> <<>>, idx |-> i, errs |-> <<>>]

\* the tag end parseElement and parseClosingTag look for at index i: advanced over, or
\* reported missing with the tokens up to the next tag end skipped
tagEnd(i, message) ==
    LET to(j) == [idx |-> IF isCurrent(j, "TagEnd") THEN advanceFrom(j) ELSE j,
                  errs |-> reportError(message, i)]
    IN  IF isCurrent(i, "TagEnd") THEN [idx |-> advanceFrom(i), errs |-> <<>>]
        ELSE to(consumeUntil(i, "TagEnd"))

\* parseElement up to its children loop
parseElement(i) ==
    LET element(tagName, attributes) ==
            [type |-> "Element", tagName |-> tagName, attributes |-> attributes,
             children |-> <<>>, selfClosing |-> TRUE]
        ended(tagName, a, errs, e) ==
            IF tagName \in VOID_TAGS
            THEN nodeReturned(element(tagName, a.attributes), e.idx, errs \o e.errs)
            ELSE [kind |-> "open",
                  frame |-> [tagName |-> tagName, attributes |-> a.attributes,
                             children |-> <<>>],
                  idx |-> e.idx, errs |-> errs \o e.errs]
        attributed(tagName, a, errs) ==
            IF isCurrent(a.idx, "TagSelfClose")
            THEN nodeReturned(element(tagName, a.attributes), advanceFrom(a.idx),
                              errs \o a.errs)
            ELSE ended(tagName, a, errs \o a.errs, tagEnd(a.idx, <<"M", "i", "s", "s", "i", "n", "g", " ", "t", "a", "g", " ", "e", "n", "d">>))
        \* n is the index after the tag name, when there is one
        named(tagName, n, errs) == attributed(tagName, parseAttributes(n), errs)
        opened(o) ==
            IF isCurrent(o.idx, "Name")
            THEN named(currentAt(o.idx).value, advanceFrom(o.idx), o.errs)
            ELSE named(<<"u", "n", "k", "n", "o", "w", "n">>, o.idx, o.errs \o reportError(<<"M", "i", "s", "s", "i", "n", "g", " ", "t", "a", "g", " ", "n", "a", "m", "e">>, o.idx))
    IN  opened(expect(i, "TagOpen"))

\* parseNode, with parseElement up to its children loop
parseNode(i) ==
    LET \* j is where consumeUntil(TagEnd) stopped
        skipped(j) ==
            [kind |-> "null", idx |-> IF isCurrent(j, "TagEnd") THEN advanceFrom(j) ELSE j,
             errs |-> reportError(<<"U", "n", "e", "x", "p", "e", "c", "t", "e", "d", " ", "c", "l", "o", "s", "i", "n", "g", " ", "t", "a", "g">>, i)]
    IN  IF isCurrent(i, "Text") THEN parseText(i)
        ELSE IF isCurrent(i, "Comment") THEN parseComment(i)
        ELSE IF isCurrent(i, "TagOpen") THEN parseElement(i)
        ELSE IF isCurrent(i, "TagClose") THEN skipped(consumeUntil(i, "TagEnd"))
        ELSE IF isCurrent(i, "InterpolationStart") THEN parseInterpolation(i)
        ELSE [kind |-> "null", idx |-> i, errs |-> <<>>]

\* parseClosingTag(expected) with the current token a TagClose
parseClosingTag(i, expected) ==
    LET of(name, errs, e) ==
            [matches |-> name = expected,
             idx |-> e.idx,
             errs |-> errs \o e.errs
                      \o (IF name # expected
                          THEN reportError(<<"E", "x", "p", "e", "c", "t", "e", "d", " ", "c", "l", "o", "s", "i", "n", "g", " ", "t", "a", "g", " ", "<", "/">> \o expected \o <<">">>,
                                           e.idx)
                          ELSE <<>>)]
        \* n is the index after the name, when there is one
        named(name, n, errs) == of(name, errs, tagEnd(n, <<"M", "i", "s", "s", "i", "n", "g", " ", "c", "l", "o", "s", "i", "n", "g", " ", "t", "a", "g", " ", "e", "n", "d">>))
        \* j is the index after "</"
        closing(j) ==
            IF isCurrent(j, "Name") THEN named(currentAt(j).value, advanceFrom(j), <<>>)
            ELSE named(<<>>, j, reportError(<<"M", "i", "s", "s", "i", "n", "g", " ", "c", "l", "o", "s", "i", "n", "g", " ", "t", "a", "g", " ", "n", "a", "m", "e">>, j))
    IN  closing(advanceFrom(i))

(***************************************************************************)
(* HmlParser.parseDocument as a state machine, cut at the document loop    *)
(* and at the children loop of parseElement: each iteration is a step, and *)
(* frames holds the elements whose children loop is running, outermost     *)
(* first.                                                                  *)
(***************************************************************************)

\* the pieces the markup texts are put together from
HmlPieces ==
    { <<"<", "a", ">">>, <<"<", "/", "a", ">">>, <<"<", "b", ">">>, <<"<", "b", "r", ">">>, <<"<", "c", " ", "k", "=", "\"", "v", "\"", " ", "d", "=", "{", "{", "x", "}", "}", " ", "e", "/", ">">>, <<"x">>,
      <<"{", "{", " ", "a", ".", "b", " ", "+", " ", "f", "(", "1", ")", "[", "0", "]", " ", "}", "}">>, <<"<", "!", "-", "-", "z", "-", "-", ">">>, <<"<", "/">>, <<"{", "{", " ", "[", "1", ",", " ", "{", "k", ":", " ", "2", "}", "]", " ", "?", " ", "-", "y", " ", ":", " ">> }

\* the longest markup text, in pieces
MaxHmlPieces == 3

RECURSIVE HmlTexts(_)
HmlTexts(n) ==
    IF n = 0 THEN {<<>>}
    ELSE HmlTexts(n - 1) \cup {t \o s : t \in HmlTexts(n - 1), s \in HmlPieces}

\* after new HmlParser(text), at the call of parseDocument
HmlInit ==
    /\ original \in HmlTexts(MaxHmlPieces)
    /\ docOptions \in {d \in DocOptions : d.tabSize = 2}
    /\ sourceText = original
    /\ formatOptions = DEFAULT_FORMAT_OPTIONS
    /\ tokens = hmlTokens(original)
    /\ tokenIndex = 0
    /\ pc = "hmlDocument"
    /\ frames = <<>>
    /\ children = <<>>
    /\ stuck = 0
    /\ pass = 1
    /\ formatted = <<>>
    /\ result = <<>>
    /\ route = ""
    /\ again = <<>>
    /\ errors = <<>>

\* parseElement returns node: to the children loop of the element around it, or to the
\* document loop
elementReturned(node) ==
    IF Len(frames) = 1
    THEN /\ children' = Append(children, node)
         /\ frames' = <<>>
         /\ pc' = "hmlDocument"
    ELSE /\ frames' = [SubSeq(frames, 1, Len(frames) - 1)
                           EXCEPT ![Len(frames) - 1].children = Append(@, node)]
         /\ pc' = "hmlChildren"
         /\ UNCHANGED children

\* the element of the running children loop, as parseElement returns it from the loop
elementOf(frame) ==
    [type |-> "Element", tagName |-> frame.tagName, attributes |-> frame.attributes,
     children |-> frame.children, selfClosing |-> FALSE]

\* one iteration of parseDocument's loop
hmlParseDocumentLoop ==
    /\ pc = "hmlDocument"
    /\ ~isCurrent(tokenIndex, "EOF")
    /\ \E o \in {parseNode(tokenIndex)} :
         /\ errors' = errors \o o.errs
         /\ IF o.kind = "node"
            THEN /\ children' = Append(children, o.node)
                 /\ tokenIndex' = o.idx
                 /\ UNCHANGED <<frames, pc>>
            ELSE IF o.kind = "open"
                 THEN /\ frames' = <<o.frame>>
                      /\ tokenIndex' = o.idx
                      /\ pc' = "hmlChildren"
                      /\ UNCHANGED children
            ELSE /\ tokenIndex' = advanceFrom(o.idx)
                 /\ UNCHANGED <<frames, pc, children>>
    /\ UNCHANGED <<sourceText, docOptions, formatOptions, tokens, stuck, pass, original,
                   formatted, result, route, again>>

\* parseDocument's loop ends and it returns the document
hmlParseDocumentExit ==
    /\ pc = "hmlDocument"
    /\ isCurrent(tokenIndex, "EOF")
    /\ pc' = "hmlDone"
    /\ UNCHANGED <<sourceText, docOptions, formatOptions, tokens, tokenIndex, frames,
                   children, stuck, pass, original, formatted, result, route, again, errors>>

\* one iteration of the children loop of parseElement
hmlParseChildrenLoop ==
    /\ pc = "hmlChildren"
    /\ ~isCurrent(tokenIndex, "EOF")
    /\ IF isCurrent(tokenIndex, "TagClose")
       THEN \E c \in {parseClosingTag(tokenIndex, top.tagName)} :
              /\ errors' = errors \o c.errs
              /\ tokenIndex' = c.idx
              /\ IF c.matches THEN elementReturned(elementOf(top))
                 ELSE UNCHANGED <<frames, pc, children>>
       ELSE \E o \in {parseNode(tokenIndex)} :
              /\ errors' = errors \o o.errs
              /\ IF o.kind = "node"
                 THEN /\ frames' = [frames EXCEPT ![Len(frames)].children =
                                                      Append(@, o.node)]
                      /\ tokenIndex' = o.idx
                      /\ UNCHANGED <<pc, children>>
                 ELSE IF o.kind = "open"
                      THEN /\ frames' = Append(frames, o.frame)
                           /\ tokenIndex' = o.idx
                           /\ UNCHANGED <<pc, children>>
                 ELSE /\ tokenIndex' = advanceFrom(o.idx)
                      /\ UNCHANGED <<frames, pc, children>>
    /\ UNCHANGED <<sourceText, docOptions, formatOptions, tokens, stuck, pass, original,
                   formatted, result, route, again>>

\* the children loop ends at the end of the input and parseElement returns the element
hmlParseChildrenExit ==
    /\ pc = "hmlChildren"
    /\ isCurrent(tokenIndex, "EOF")
    /\ elementReturned(elementOf(top))
    /\ UNCHANGED <<sourceText, docOptions, formatOptions, tokens, tokenIndex, stuck, pass,
                   original, formatted, result, route, again, errors>>

HmlNext ==
    \/ hmlParseDocumentLoop
    \/ hmlParseDocumentExit
    \/ hmlParseChildrenLoop
    \/ hmlParseChildrenExit

SpecHml == HmlInit /\ [][HmlNext]_arkVars

\* C8: every iteration of the document loop and of an element's children loop leaves the
\* parser on a later token, so parseDocument never loops on the same token and ends
C8_LoopsConsumeToken ==
    [][(pc \in {"hmlDocument", "hmlChildren"} /\ ~isCurrent(tokenIndex, "EOF"))
           => tokenIndex' > tokenIndex]_arkVars

\* parseDocument has returned from a text with malformed markup: errors were reported,
\* an element's children loop ran, and the parser is on the EOF token
C8_MalformedParsed ==
    /\ pc = "hmlDone"
    /\ errors # <<>>
    /\ \E k \in 1..Len(children) : children[k].type = "Element" /\ ~children[k].selfClosing
    /\ tokenIndex = Len(tokens) - 1
    /\ frames = <<>>

\* the children loop of the innermost open element is at a closing tag </name> at index
\* i, and name is not the tag of that element
mismatchedCloseAt(i) ==
    /\ pc = "hmlChildren"
    /\ isCurrent(i, "TagClose")
    /\ isCurrent(i + 1, "Name")
    /\ isCurrent(i + 2, "TagEnd")
    /\ currentAt(i + 1).value # top.tagName

\* C9: a closing tag that does not match the open tag is reported, the element stays
\* open, and the closing tag is not consumed: it is left for the element around
C9_MismatchedCloseLeft ==
    [][mismatchedCloseAt(tokenIndex)
           => /\ Len(errors') > Len(errors)
              /\ frames' = frames
              /\ tokenIndex' = tokenIndex]_arkVars

(***************************************************************************)
(* The provider's run on a struct with one member: the texts are put       *)
(* together from a decorator line, a member head and what follows it, so   *)
(* that a property of the parsed member can be compared with the piece of  *)
(* text it was written as.                                                 *)
(***************************************************************************)

\* the method heads, the return types and the bodies of the generated methods
MethodHeads == { <<"f", "(", ")">>, <<"g", "(", "a", ":", " ", "T", ")">> }

ReturnTypes == { <<"v", "o", "i", "d">>, <<"M", "a", "p", "<", "s", "t", "r", "i", "n", "g", ",", " ", "n", "u", "m", "b", "e", "r", ">">>, <<"s", "t", "r", "i", "n", "g", "[", "]">> }

MethodBodies == { <<"{", "}">>, <<"{", " ", "r", "e", "t", "u", "r", "n", " ", "1", " ", "}">>, <<"{", "\n", " ", " ", " ", " ", "i", "f", " ", "(", "a", ")", " ", "{", " ", "b", " ", "}", "\n", " ", " ", "}">> }

\* a method written as head: returnType body
MethodCases ==
    { [text |-> h \o <<":", " ">> \o t \o <<" ">> \o b, returnType |-> t, body |-> b] :
        h \in MethodHeads, t \in ReturnTypes, b \in MethodBodies }

\* the types and the initializers of the generated properties
PropertyTypes == { <<"n", "u", "m", "b", "e", "r">>, <<"M", "a", "p", "<", "s", "t", "r", "i", "n", "g", ",", " ", "n", "u", "m", "b", "e", "r", ">">>, <<"s", "t", "r", "i", "n", "g", "[", "]">>, <<"(", ")", " ", "=", ">", " ", "v", "o", "i", "d">> }

Initializers == { <<"1">>, <<"'", "a", "'">>, <<"[", "1", ",", " ", "2", "]">>, <<"{", " ", "a", ":", " ", "1", " ", "}">> }

\* a property written as x: propertyType = initializer
PropertyCases ==
    { [text |-> <<"x", ":", " ">> \o t \o <<" ", "=", " ">> \o e, propertyType |-> t, initializer |-> e] :
        t \in PropertyTypes, e \in Initializers }

\* the struct with the one member written as member
StructOf(member) == <<"s", "t", "r", "u", "c", "t", " ", "A", " ", "{", "\n", " ", " ">> \o member \o <<"\n", "}", "\n">>

\* the names and the argument texts of the generated decorators, and what follows a
\* decorator on its line
DecoratorNames == { <<"P", "r", "e", "v", "i", "e", "w">>, <<"E", "n", "t", "r", "y">> }

DecoratorArguments ==
    { <<"(", "{", " ", "t", "i", "t", "l", "e", ":", " ", "'", "T", "e", "s", "t", "'", " ", "}", ")">>, <<"(", "'", "a", ")", "'", ")">>, <<"(", "a", ",", " ", "(", "b", ")", ")">>, <<"(", "\n", " ", " ", "1", "\n", ")">>, <<"(", "w", " ", "/", " ", "2", ")">> }

DecoratorTails == { <<>>, <<" ", "/", "/", " ", "c">> }

\* a struct with the decorator @name arguments
DecoratorCases ==
    { [text |-> <<"@">> \o n \o a \o t \o <<"\n", "s", "t", "r", "u", "c", "t", " ", "A", " ", "{", "\n", " ", " ", "x", ":", " ", "n", "u", "m", "b", "e", "r", " ", "=", " ", "1", "\n", "}", "\n">>,
       name |-> n, arguments |-> a] :
        n \in DecoratorNames, a \in DecoratorArguments, t \in DecoratorTails }

\* the members that start with the identifier build and are not build() {
BuildCases ==
    { [text |-> <<"b", "u", "i", "l", "d", ":", " ", "n", "u", "m", "b", "e", "r", " ", "=", " ", "1">>, type |-> "Property"],
      [text |-> <<"b", "u", "i", "l", "d", " ", "=", " ", "1">>, type |-> "Property"],
      [text |-> <<"b", "u", "i", "l", "d", "?", ":", " ", "s", "t", "r", "i", "n", "g">>, type |-> "Property"],
      [text |-> <<"b", "u", "i", "l", "d", "(", "x", ":", " ", "n", "u", "m", "b", "e", "r", ")", " ", "{", "}">>, type |-> "Method"],
      [text |-> <<"b", "u", "i", "l", "d", "(", ")", ":", " ", "v", "o", "i", "d", " ", "{", "}">>, type |-> "Method"],
      [text |-> <<"b", "u", "i", "l", "d", "<", "T", ">", "(", ")", " ", "{", "}">>, type |-> "Method"],
      [text |-> <<"b", "u", "i", "l", "d", "(", ")", " ", "/", "/", " ", "c", "\n", " ", " ", "x", " ", "=", " ", "1">>, type |-> "Method"] }

StructInputs ==
    {StructOf(c.text) : c \in MethodCases \cup PropertyCases \cup BuildCases}
        \cup {c.text : c \in DecoratorCases}

StructInit ==
    /\ original \in StructInputs
    /\ docOptions \in DocOptions
    /\ sourceText = original
    /\ formatOptions = DEFAULT_FORMAT_OPTIONS
    /\ tokens = <<>>
    /\ tokenIndex = 0
    /\ pc = "provide"
    /\ frames = <<>>
    /\ children = <<>>
    /\ stuck = 0
    /\ pass = 1
    /\ formatted = <<>>
    /\ result = <<>>
    /\ route = ""
    /\ again = <<>>
    /\ errors = <<>>

SpecStruct == StructInit /\ [][ArkNext]_arkVars

\* parseDocument has returned the struct of the first pass and its first member has the
\* given type
firstMemberIs(type) ==
    /\ pc = "format"
    /\ pass = 1
    /\ Len(children) >= 1
    /\ children[1].type = "Struct"
    /\ Len(children[1].members) >= 1
    /\ children[1].members[1].type = type

\* C11: a method written name(): T { ... } is parsed with returnType T and with body the
\* brace-delimited slice, and a property written name: T = e with propertyType T and
\* initializer e.
C11_AnnotationsSeparate ==
    (pc = "format" /\ pass = 1) =>
        /\ \A c \in MethodCases :
               original = StructOf(c.text) =>
                   /\ firstMemberIs("Method")
                   /\ children[1].members[1].returnType = c.returnType
                   /\ children[1].members[1].body = c.body
        /\ \A c \in PropertyCases :
               original = StructOf(c.text) =>
                   /\ firstMemberIs("Property")
                   /\ children[1].members[1].propertyType = c.propertyType
                   /\ children[1].members[1].initializer = c.initializer

\* text has part in it
Includes(text, part) ==
    \E at \in 0..(Len(text) - Len(part)) : StartsWithAt(text, part, at)

\* C19: a decorator @Name(args) on a struct appears in the output of formatDocument with
\* its name and its argument text as they are in the source.
C19_DecoratorKept ==
    (pc = "done" /\ pass = 1) =>
        \A c \in DecoratorCases :
            original = c.text => Includes(formatted, <<"@">> \o c.name \o c.arguments)

\* C20: a member that starts with the identifier build and is not followed by ( ) { in
\* that order is parsed, from the build token again, as a property or a method named
\* build.
C20_BuildRestored ==
    (pc = "format" /\ pass = 1) =>
        \A c \in BuildCases :
            original = StructOf(c.text) =>
                /\ firstMemberIs(c.type)
                /\ children[1].members[1].name = <<"b", "u", "i", "l", "d">>

\* a method named build with a parameter has been parsed
C20_BuildMethodParsed ==
    /\ original = StructOf(<<"b", "u", "i", "l", "d", "(", "x", ":", " ", "n", "u", "m", "b", "e", "r", ")", " ", "{", "}">>)
    /\ firstMemberIs("Method")
    /\ Len(children[1].members[1].parameters) = 1

(***************************************************************************)
(* UIComponentParser: the scan of a build body into UI components.  The    *)
(* parser reads the characters of content at index; an operator here takes *)
(* the index it starts at and returns the index it leaves, and the calls   *)
(* of consumeString it made, each with the index it started at and the     *)
(* index it returned at.                                                   *)
(***************************************************************************)

QuoteChars == {"\"", "'", BT}

\* UIComponentParser.skipWhitespace: the index after white space and comments
RECURSIVE uiSkipWhitespace(_, _)
uiSkipWhitespace(content, index) ==
    IF index >= Len(content) THEN index
    ELSE IF At(content, index) \in {" ", "\t", "\n", "\r"}
         THEN uiSkipWhitespace(content, ScanWhile(content, index, {" ", "\t", "\n", "\r"}))
    ELSE IF At(content, index) = "/" /\ At(content, index + 1) = "/"
         THEN uiSkipWhitespace(content, ScanUntil(content, index, {"\n"}))
    ELSE IF At(content, index) = "/" /\ At(content, index + 1) = "*"
         THEN uiSkipWhitespace(content, BlockCommentEnd(content, index + 2))
    ELSE index

\* UIComponentParser.consumeString for a template string: the index after the template
\* string whose body starts at p.  At "${" only the "$" is consumed and braceDepth is
\* incremented; the "{" is then met with braceDepth > 0 and increments it again.
RECURSIVE uiTemplateEnd(_, _, _)
uiTemplateEnd(content, p, braceDepth) ==
    IF p >= Len(content) THEN p
    ELSE LET ch == At(content, p) IN
         IF ch = "\\" THEN uiTemplateEnd(content, Min(p + 2, Len(content)), braceDepth)
         ELSE IF ch = "$" /\ At(content, p + 1) = "{"
              THEN uiTemplateEnd(content, p + 1, braceDepth + 1)
         ELSE IF ch = "{" /\ braceDepth > 0 THEN uiTemplateEnd(content, p + 1, braceDepth + 1)
         ELSE IF ch = "}" /\ braceDepth > 0 THEN uiTemplateEnd(content, p + 1, braceDepth - 1)
         ELSE IF ch = BT /\ braceDepth = 0 THEN p + 1
         \* any other character is stepped over
         ELSE uiTemplateEnd(content, ScanUntil(content, p + 1, {"\\", BT, "$", "{", "}"}),
                            braceDepth)

\* UIComponentParser.consumeString: the index after the string that starts at index
uiConsumeString(content, index) ==
    IF At(content, index) = BT THEN uiTemplateEnd(content, index + 1, 0)
    ELSE QuotedEnd(content, index + 1, At(content, index))

\* the loop of UIComponentParser.consumeBalanced
RECURSIVE balancedScan(_, _, _, _, _, _)
balancedScan(content, p, depth, open, close, strings) ==
    IF p >= Len(content) \/ depth <= 0 THEN [index |-> p, strings |-> strings]
    ELSE LET ch == At(content, p) IN
         IF ch \in QuoteChars
         THEN balancedScan(content, uiConsumeString(content, p), depth, open, close,
                           Append(strings, [start |-> p, end |-> uiConsumeString(content, p)]))
         ELSE IF ch = open THEN balancedScan(content, p + 1, depth + 1, open, close, strings)
         ELSE IF ch = close THEN balancedScan(content, p + 1, depth - 1, open, close, strings)
         \* any other character is appended
         ELSE balancedScan(content, ScanUntil(content, p + 1, QuoteChars \cup {open, close}),
                           depth, open, close, strings)

\* UIComponentParser.consumeBalanced: the text from the open delimiter at index to its
\* close delimiter, and empty when there is no open delimiter at index
uiConsumeBalanced(content, index, open, close) ==
    IF At(content, index) # open THEN [text |-> <<>>, index |-> index, strings |-> <<>>]
    ELSE LET of(s) == [text |-> Slice(content, index, s.index), index |-> s.index,
                       strings |-> s.strings]
         IN  of(balancedScan(content, index + 1, 1, open, close, <<>>))

\* the end of the word that the regular expression first \s* ( matches at index, or -1
wordBeforeParen(content, index, first) ==
    IF At(content, index) \notin first THEN -1
    ELSE LET e == ScanWhile(content, index + 1, WordChars)
         IN  IF At(content, ScanWhile(content, e, WhiteChars)) = "(" THEN e ELSE -1

\* the match of a literal word followed by \s* ( at index
literalBeforeParen(content, index, word) ==
    /\ StartsWithAt(content, word, index)
    /\ At(content, ScanWhile(content, index + Len(word), WhiteChars)) = "("

\* the balanced parenthesized text after white space from index
uiArgumentsAt(content, index) == uiConsumeBalanced(content, uiSkipWhitespace(content, index), "(", ")")

\* UIComponentParser.uiParseAttributes: the .name(args) calls from index
RECURSIVE attributesLoop(_, _, _, _)
attributesLoop(content, index, attributes, strings) ==
    IF index >= Len(content)
    THEN [attributes |-> attributes, index |-> index, strings |-> strings]
    ELSE LET dot == uiSkipWhitespace(content, index)
             e == wordBeforeParen(content, dot + 1, Letters \cup {"_"})
             of(a) == attributesLoop(content, a.index,
                          Append(attributes, [type |-> "UIAttribute",
                                              name |-> Slice(content, dot + 1, e),
                                              arguments |-> a.text]),
                          strings \o a.strings)
         IN  IF At(content, dot) # "."
             THEN [attributes |-> attributes, index |-> dot, strings |-> strings]
             ELSE IF e < 0
             THEN [attributes |-> attributes, index |-> dot + 1, strings |-> strings]
             ELSE of(uiArgumentsAt(content, e))

uiParseAttributes(content, index) == attributesLoop(content, index, <<>>, <<>>)

RECURSIVE parseAll(_, _)

\* UIComponentParser.parseChildren: the components of the brace block at index
parseChildren(content, index) ==
    LET at == uiSkipWhitespace(content, index)
        of(body) == [children |-> parseAll(SliceInner(body.text), 0), index |-> body.index,
                     strings |-> body.strings]
    IN  IF At(content, at) # "{" THEN [children |-> <<>>, index |-> at, strings |-> <<>>]
        ELSE of(uiConsumeBalanced(content, at, "{", "}"))

\* UIComponentParser.parseIfComponent
parseIfComponent(content, index) ==
    LET of(c) ==
            LET with(b) == [node |-> [type |-> "UIComponent", name |-> <<"I", "f">>,
                                      attributes |-> <<>>, children |-> b.children,
                                      isConditional |-> TRUE, condition |-> c.text,
                                      isLoop |-> FALSE],
                            index |-> b.index, strings |-> c.strings \o b.strings]
            IN  with(parseChildren(content, c.index))
    IN  of(uiArgumentsAt(content, index + 2))

\* UIComponentParser.parseForEachComponent
parseForEachComponent(content, index, name) ==
    LET of(a) == [node |-> [type |-> "UIComponent", name |-> name, arguments |-> a.text,
                            attributes |-> <<>>, children |-> <<>>, isConditional |-> FALSE,
                            isLoop |-> TRUE, loopExpression |-> a.text],
                  index |-> a.index, strings |-> a.strings]
    IN  of(uiArgumentsAt(content, index + Len(name)))

\* UIComponentParser.parseComponent: the component at index, or Null
parseComponent(content, index) ==
    LET at == uiSkipWhitespace(content, index)
        e == wordBeforeParen(content, at, UpperLetters)
        of(a) ==
            LET with(attrs) ==
                    LET and(c) == [node |-> [type |-> "UIComponent",
                                             name |-> Slice(content, at, e),
                                             arguments |-> a.text,
                                             attributes |-> attrs.attributes,
                                             children |-> c.children,
                                             isConditional |-> FALSE, isLoop |-> FALSE],
                                   index |-> c.index,
                                   strings |-> a.strings \o attrs.strings \o c.strings]
                    IN  and(parseChildren(content, attrs.index))
            IN  with(uiParseAttributes(content, a.index))
    IN  IF e >= 0 THEN of(uiArgumentsAt(content, e))
        ELSE IF literalBeforeParen(content, at, <<"i", "f">>) THEN parseIfComponent(content, at)
        ELSE IF literalBeforeParen(content, at, <<"F", "o", "r", "E", "a", "c", "h">>)
             THEN parseForEachComponent(content, at, <<"F", "o", "r", "E", "a", "c", "h">>)
        ELSE IF literalBeforeParen(content, at, <<"L", "a", "z", "y", "F", "o", "r", "E", "a", "c", "h">>)
             THEN parseForEachComponent(content, at, <<"L", "a", "z", "y", "F", "o", "r", "E", "a", "c", "h">>)
        ELSE [node |-> Null, index |-> at, strings |-> <<>>]

\* one iteration of the loop of UIComponentParser.parse that starts at index
parseStep(content, index) ==
    LET at == uiSkipWhitespace(content, index)
        of(c) == IF c.node # Null THEN c ELSE [c EXCEPT !.index = at + 1]
    IN  IF at >= Len(content) THEN [node |-> Null, index |-> at, strings |-> <<>>]
        ELSE of(parseComponent(content, at))

\* UIComponentParser.parse on a nested body: the components from index
parseAll(content, index) ==
    IF index >= Len(content) THEN <<>>
    ELSE LET of(s) == (IF s.node # Null THEN <<s.node>> ELSE <<>>) \o parseAll(content, s.index)
         IN  of(parseStep(content, index))

(***************************************************************************)
(* UIComponentParser.parse as a state machine: each iteration of its loop  *)
(* is a step.  original is the parser's content, tokenIndex its index,     *)
(* children the components it has pushed and frames the calls of           *)
(* consumeString made so far.                                              *)
(***************************************************************************)

\* the pieces the build bodies are put together from
UIPieces ==
    { <<"T", "e", "x", "t", "(", BT, "a", "$", "{", "b", "}", "c", BT, ")">>, <<"T", "e", "x", "t", "(", BT, "a", "$", "{", " ", "{", "x", ":", "1", "}", " ", "}", "b", BT, ",", " ", "1", ")">>, <<"T", "e", "x", "t", "(", "'", "x", "'", ")">>, <<"\n", ".", "f", "o", "n", "t", "S", "i", "z", "e", "(", "2", "0", ")">>,
      <<" ", "{", "\n", " ", " ", "T", "e", "x", "t", "(", "\"", "}", "\"", ")", "\n", "}", "\n">>, <<"F", "o", "r", "E", "a", "c", "h", "(", "t", "h", "i", "s", ".", "i", "t", "e", "m", "s", ",", " ", "(", "i", ")", " ", "=", ">", " ", "{", " ", "T", "e", "x", "t", "(", "i", ")", " ", "}", ")">>,
      <<"L", "a", "z", "y", "F", "o", "r", "E", "a", "c", "h", " ", "(", "s", "r", "c", ")">>, <<"i", "f", " ", "(", "a", ")", " ", "{", " ", "T", "e", "x", "t", "(", BT, "b", BT, ")", " ", "}">>, <<" ", "x", " ", "/", "/", " ", "y", "\n">>, <<"T", "e", "x", "t", "(", BT, "a", BT, ")">> }

\* the longest build body, in pieces
MaxUIPieces == 2

RECURSIVE UIBodies(_)
UIBodies(n) ==
    IF n = 0 THEN {<<>>}
    ELSE UIBodies(n - 1) \cup {t \o s : t \in UIBodies(n - 1), s \in UIPieces}

\* after new UIComponentParser(content), at the call of parse
UIInit ==
    /\ original \in UIBodies(MaxUIPieces)
    /\ docOptions \in {d \in DocOptions : d.tabSize = 2}
    /\ sourceText = original
    /\ formatOptions = DEFAULT_FORMAT_OPTIONS
    /\ tokens = <<>>
    /\ tokenIndex = 0
    /\ pc = "uiParse"
    /\ frames = <<>>
    /\ children = <<>>
    /\ stuck = 0
    /\ pass = 1
    /\ formatted = <<>>
    /\ result = <<>>
    /\ route = ""
    /\ again = <<>>
    /\ errors = <<>>

\* one iteration of the loop of parse
uiParseLoop ==
    /\ pc = "uiParse"
    /\ tokenIndex < Len(original)
    /\ \E s \in {parseStep(original, tokenIndex)} :
         /\ tokenIndex' = s.index
         /\ children' = IF s.node # Null THEN Append(children, s.node) ELSE children
         /\ frames' = frames \o s.strings
    /\ UNCHANGED <<sourceText, docOptions, formatOptions, tokens, pc, stuck, pass, original,
                   formatted, result, route, again, errors>>

\* the loop of parse ends and it returns the components
uiParseExit ==
    /\ pc = "uiParse"
    /\ tokenIndex >= Len(original)
    /\ pc' = "uiDone"
    /\ UNCHANGED <<sourceText, docOptions, formatOptions, tokens, tokenIndex, frames,
                   children, stuck, pass, original, formatted, result, route, again, errors>>

UINext == uiParseLoop \/ uiParseExit

SpecUI == UIInit /\ [][UINext]_arkVars

\* the template string that starts at start has a ${ before the backtick that closes it
\* for the lexer
hasInterpolation(content, start) ==
    \E p \in (start + 1)..(TemplateEnd(content, start + 1, 0) - 2) :
        At(content, p) = "$" /\ At(content, p + 1) = "{"

\* C12: for every template string with ${...} interpolations inside a UI body, the string
\* scan of UIComponentParser stops at the same closing backtick as the template-string scan
\* of the lexer.
C12_TemplateScansAgree ==
    \A k \in 1..Len(frames) :
        (At(original, frames[k].start) = BT /\ hasInterpolation(original, frames[k].start))
            => frames[k].end = TemplateEnd(original, frames[k].start + 1, 0)

\* C14: every ForEach(...) or LazyForEach(...) call of the body is parsed into a loop
\* node: isLoop is true, isConditional false, loopExpression the parenthesized argument
\* text, and attributes and children are empty.
C14_ForEachIsLoop ==
    \A k \in 1..Len(children) :
        children[k].name \in {<<"F", "o", "r", "E", "a", "c", "h">>, <<"L", "a", "z", "y", "F", "o", "r", "E", "a", "c", "h">>} =>
            /\ children[k].isLoop
            /\ ~children[k].isConditional
            /\ children[k].loopExpression = children[k].arguments
            /\ children[k].attributes = <<>>
            /\ children[k].children = <<>>

(***************************************************************************)
(* ArkTSParser.tokenizeAll as a state machine: each call of                *)
(* ArkTSLexer2.nextToken is a step.  original is the lexer's input,        *)
(* tokenIndex its position and tokens the tokens pushed so far.            *)
(***************************************************************************)

\* the template string with an object literal in its interpolation
NestedTemplate == <<BT, "a", "$", "{", " ", "{", "x", ":", "1", "}", " ", "}", "b", BT>>

\* the pieces the lexer's inputs are put together from
LexPieces ==
    { NestedTemplate, <<BT, "x", BT>>, <<"a">>, <<" ">>, <<"'", "s", "'">>, <<"{">>, <<"}">>, <<"$", "{">>, <<"\\">> }

\* the longest input of the lexer, in pieces
MaxLexPieces == 3

RECURSIVE LexTexts(_)
LexTexts(n) ==
    IF n = 0 THEN {<<>>}
    ELSE LexTexts(n - 1) \cup {t \o s : t \in LexTexts(n - 1), s \in LexPieces}

\* after new ArkTSLexer2(text), at the loop of tokenizeAll
LexInit ==
    /\ original \in LexTexts(MaxLexPieces)
    /\ docOptions \in {d \in DocOptions : d.tabSize = 2}
    /\ sourceText = original
    /\ formatOptions = DEFAULT_FORMAT_OPTIONS
    /\ tokens = <<>>
    /\ tokenIndex = 0
    /\ pc = "tokenize"
    /\ frames = <<>>
    /\ children = <<>>
    /\ stuck = 0
    /\ pass = 1
    /\ formatted = <<>>
    /\ result = <<>>
    /\ route = ""
    /\ again = <<>>
    /\ errors = <<>>

\* one iteration of the loop of tokenizeAll: the next token is pushed, and the loop ends
\* with the EOF token
tokenizeLoop ==
    /\ pc = "tokenize"
    /\ \E token \in {nextToken(original, tokenIndex)} :
         /\ tokens' = Append(tokens, token)
         /\ tokenIndex' = token.end
         /\ pc' = IF token.type = "EOF" THEN "tokenized" ELSE "tokenize"
    /\ UNCHANGED <<sourceText, docOptions, formatOptions, frames, children, stuck, pass,
                   original, formatted, result, route, again, errors>>

LexNext == tokenizeLoop

SpecLex == LexInit /\ [][LexNext]_arkVars

\* the offsets at which braceDepth returns to zero in the loop of consumeString for the
\* template string whose body starts at p
RECURSIVE templateZeros(_, _, _)
templateZeros(text, p, braceDepth) ==
    IF p >= Len(text) THEN <<>>
    ELSE LET ch == At(text, p) IN
         IF ch = "\\" THEN templateZeros(text, Min(p + 2, Len(text)), braceDepth)
         ELSE IF ch = BT /\ braceDepth = 0 THEN <<>>
         ELSE IF ch = "$" /\ At(text, p + 1) = "{" THEN templateZeros(text, p + 2, braceDepth + 1)
         ELSE IF ch = "{" /\ braceDepth > 0 THEN templateZeros(text, p + 1, braceDepth + 1)
         ELSE IF ch = "}" /\ braceDepth > 0
              THEN (IF braceDepth = 1 THEN <<p>> ELSE <<>>)
                       \o templateZeros(text, p + 1, braceDepth - 1)
         ELSE templateZeros(text, ScanUntil(text, p + 1, {"\\", BT, "$", "{", "}"}), braceDepth)

\* the token is a template string that starts with NestedTemplate
nestedTemplateAt(token) ==
    /\ token.type = "TemplateString"
    /\ StartsWithAt(original, NestedTemplate, token.start)

\* C13: lexing the template string `a${ {x:1} }b` yields one template-string token that
\* ends at its final backtick, with the inner {x:1} inside the token, and the brace depth
\* of the interpolation returns to zero exactly once, at the brace that closes the ${.
C13_NestedTemplateToken ==
    \A k \in 1..Len(tokens) :
        nestedTemplateAt(tokens[k]) =>
            /\ tokens[k].end = tokens[k].start + Len(NestedTemplate)
            /\ tokens[k].value = Str(NestedTemplate)
            /\ templateZeros(original, tokens[k].start + 1, 0) = <<tokens[k].start + 11>>
            /\ At(original, tokens[k].start + 11) = "}"

\* the nested template string has been lexed with text before and after it
C13_NestedTemplateLexed ==
    /\ pc = "tokenized"
    /\ \E k \in 2..(Len(tokens) - 2) : nestedTemplateAt(tokens[k])

(***************************************************************************)
(* The two reindenters on blocks of code: the fallback formatter           *)
(* (formatWithBasicRulesText) on a text, and formatBuildBody of the        *)
(* structural formatter on the raw body of the build method of a struct,   *)
(* each applied again to what it returned.                                 *)
(***************************************************************************)

SwitchBlock ==
    << <<"s", "w", "i", "t", "c", "h", " ", "(", "x", ")", " ", "{">>, <<"c", "a", "s", "e", " ", "1", ":">>, <<"f", "o", "o", "(", ")", ";">>, <<"b", "r", "e", "a", "k", ";">>, <<"d", "e", "f", "a", "u", "l", "t", ":">>, <<"b", "a", "r", "(", ")">>, <<"}">> >>

ChainBlock == << <<"T", "e", "x", "t", "(", "'", "x", "'", ")">>, <<".", "f", "o", "n", "t", "S", "i", "z", "e", "(", "2", "0", ")">>, <<".", "f", "o", "n", "t", "C", "o", "l", "o", "r", "(", "C", "o", "l", "o", "r", ".", "R", "e", "d", ")">> >>

ParenBlock == << <<"f", "o", "o", "(">>, <<"a", ",">>, <<")">> >>

BracketBlock == << <<"x", " ", "=", " ", "[">>, <<"1", ",">>, <<"]">> >>

StatementBlock == << <<"T", "e", "x", "t", "(", "'", "a", "'", ")">> >>

\* the block inside the braces of a component
InColumn(block) == << <<"C", "o", "l", "u", "m", "n", "(", ")", " ", "{">> >> \o block \o << <<"}">> >>

\* the blocks the inputs of the reindenters are put together from
ReindentBlocks ==
    LET plain == {SwitchBlock, ChainBlock, ParenBlock, BracketBlock, StatementBlock}
    IN  plain \cup {InColumn(b) : b \in plain}
              \cup {InColumn(SwitchBlock \o StatementBlock), InColumn(ChainBlock) \o ChainBlock}

\* the longest input of the reindenters, in blocks
MaxReindentBlocks == 1

RECURSIVE ReindentInputs(_)
ReindentInputs(n) ==
    IF n = 0 THEN {<<>>}
    ELSE ReindentInputs(n - 1)
             \cup {t \o b : t \in ReindentInputs(n - 1), b \in ReindentBlocks}

ReindentInit ==
    /\ docOptions \in DocOptions
    /\ \E lines \in ReindentInputs(MaxReindentBlocks) : original = Join(lines, docOptions.eol)
    /\ route \in {"fallback", "structural"}
    /\ sourceText = original
    /\ formatOptions = formatOptionsOf(docOptions, original)
    /\ tokens = <<>>
    /\ tokenIndex = 0
    /\ pc = IF route = "fallback" THEN "basic" ELSE "buildBody"
    /\ frames = <<>>
    /\ children = <<>>
    /\ stuck = 0
    /\ pass = 1
    /\ formatted = <<>>
    /\ result = <<>>
    /\ again = <<>>
    /\ errors = <<>>

\* formatBuildBody on the raw body of the build method of a top-level struct: the struct's
\* members are at indent level 1, the body of build at 2
reindentBuildBody ==
    /\ pc = "buildBody"
    /\ result' = formatBuildBody(sourceText, 2, formatOptions)
    /\ pc' = "buildBodyDone"
    /\ UNCHANGED <<sourceText, docOptions, formatOptions, tokens, tokenIndex, frames,
                   children, stuck, pass, original, formatted, route, again, errors>>

\* formatBuildBody on its own output, with the same options
reindentBuildBodyAgain ==
    /\ pc = "buildBodyDone"
    /\ sourceText' = result
    /\ again' = formatBuildBody(result, 2, formatOptions)
    /\ pass' = 2
    /\ pc' = "buildBodyAgain"
    /\ UNCHANGED <<docOptions, formatOptions, tokens, tokenIndex, frames, children, stuck,
                   original, formatted, result, route, errors>>

ReindentNext ==
    \/ formatWithBasicRules
    \/ formatWithBasicRulesAgain
    \/ reindentBuildBody
    \/ reindentBuildBodyAgain

SpecReindent == ReindentInit /\ [][ReindentNext]_arkVars

\* the reindenter has returned
reindented == pc \in {"basicDone", "basicAgain", "buildBodyDone", "buildBodyAgain"}

\* the reindenter has returned from its output
reindentedAgain == pc \in {"basicAgain", "buildBodyAgain"}

\* the trimmed lines of the input, and the lines of the output
inLines == [k \in 1..Len(SplitLines(original)) |-> Trim(SplitLines(original)[k])]

outLines == SplitLines(result)

\* the indent level of a line of the output: its leading indent units
levelOf(line) ==
    (Len(line) - Len(TrimStart(line)))
        \div (IF route = "fallback" THEN Len(basicOptionsOf(docOptions).indent)
              ELSE formatOptions.indentSize)

\* the brace depth before each of the lines from line k on, d being the depth before line k
RECURSIVE depthsFrom(_, _, _)
depthsFrom(lines, k, d) ==
    IF k > Len(lines) THEN <<>>
    ELSE <<d>> \o depthsFrom(lines, k + 1,
                             d + countBracesOutsideStrings(lines[k]).openBraces
                               - countBracesOutsideStrings(lines[k]).closeBraces)

\* what a claim reads of a run of a reindenter: the trimmed lines of the input, the brace
\* depth before each of them and the indent level of each line of the output
reindentView ==
    [lines |-> inLines, depth |-> depthsFrom(inLines, 1, 0),
     level |-> [k \in 1..Len(outLines) |-> levelOf(outLines[k])]]

\* line k starts a switch block that is open up to line j
switchOpen(v, k, j) ==
    /\ k < j
    /\ isSwitchStart(v.lines[k])
    /\ EndsWith(v.lines[k], <<"{">>)
    /\ \A m \in (k + 1)..j : v.depth[m] > v.depth[k]

\* line j is a label of the switch that starts at line k
labelOf(v, k, j) ==
    /\ switchOpen(v, k, j)
    /\ isCaseLabel(v.lines[j])
    /\ v.depth[j] = v.depth[k] + 1

\* line s is a statement under the label at line j
statementUnder(v, j, s) ==
    /\ j < s
    /\ \A m \in (j + 1)..s : ~isCaseLabel(v.lines[m]) /\ v.depth[m] >= v.depth[j]
    /\ v.depth[s] = v.depth[j]
    /\ ~StartsWith(v.lines[s], <<"}">>)

\* the statements under every label are one level deeper than the label
statementsUnderLabels(v) ==
    \A j, s \in 1..Len(v.lines) :
        ((\E k \in 1..Len(v.lines) : labelOf(v, k, j)) /\ statementUnder(v, j, s))
            => v.level[s] = v.level[j] + 1

outsideSwitch(v, s) == \A k \in 1..Len(v.lines) : ~switchOpen(v, k, s)

\* the switch block that starts at line k is closed before line s
closedBefore(v, k, s) ==
    /\ isSwitchStart(v.lines[k])
    /\ \E c \in (k + 1)..(s - 1) : switchOpen(v, k, c) /\ v.depth[c + 1] = v.depth[k]

\* C16: the extra indent layer of a switch ends at the closing brace of the switch, at
\* whatever brace depth the switch was opened: a line after a switch that is nested in
\* another block differs in level from the switch line by their difference in brace depth
\* only.
C16_SwitchLayerEnds ==
    reindented =>
        LET holds(v) ==
                /\ Len(v.level) = Len(v.lines)
                /\ \A k, s \in 1..Len(v.lines) :
                       (/\ closedBefore(v, k, s)
                        /\ outsideSwitch(v, s)
                        /\ ~StartsWith(v.lines[s], <<"}">>)
                        /\ ~StartsWith(v.lines[s], <<".">>))
                           => v.level[s] - v.level[k] = v.depth[s] - v.depth[k]
        IN  holds(reindentView)

\* the lines of ChainBlock are lines k to k + 2, with no switch before them
chainAt(v, k) ==
    /\ k + 2 <= Len(v.lines)
    /\ SubSeq(v.lines, k, k + 2) = ChainBlock
    /\ \A m \in 1..(k - 1) : ~isSwitchStart(v.lines[m])

C18_ParensIndent ==
    reindented =>
        LET holds(v) ==
                /\ Len(v.level) = Len(v.lines)
                /\ \A k \in 1..(Len(v.lines) - 1) :
                       (/\ EndsWith(v.lines[k], <<"(">>) \/ EndsWith(v.lines[k], <<"[">>)
                        /\ At(v.lines[k + 1], 0) \notin {")", "]", "}", "."})
                           => v.level[k + 1] = v.level[k] + 1
        IN  holds(reindentView)

(***************************************************************************)
(* HmlLexer as a state machine: each call of peekToken or nextToken is a   *)
(* step.  original is the lexer's text, tokenIndex its index, frames its   *)
(* modeStack, again its lookahead (empty for null) and tokens the tokens   *)
(* nextToken has returned.                                                 *)
(***************************************************************************)

\* the pieces the lexer's texts are put together from
HmlLexPieces ==
    { <<"}", "}">>, <<">">>, <<"/", ">">>, <<"<", "a">>, <<"<", "/">>, <<"{", "{">>, <<"x">>, <<" ", "b", "=", "\"", "v", "\"">>, <<" ", ">", ">", ">", " ">>, <<"<", "!", "-", "-">>,
      <<"=", "=", "=">>, <<"!", "=", "=">> }

\* the longest text of the lexer, in pieces
MaxHmlLexPieces == 3

RECURSIVE HmlLexTexts(_)
HmlLexTexts(n) ==
    IF n = 0 THEN {<<>>}
    ELSE HmlLexTexts(n - 1) \cup {t \o s : t \in HmlLexTexts(n - 1), s \in HmlLexPieces}

\* after new HmlLexer(text)
HmlLexInit ==
    /\ original \in HmlLexTexts(MaxHmlLexPieces)
    /\ docOptions \in {d \in DocOptions : d.tabSize = 2}
    /\ sourceText = original
    /\ formatOptions = DEFAULT_FORMAT_OPTIONS
    /\ tokens = <<>>
    /\ tokenIndex = 0
    /\ pc = "hmlLex"
    /\ frames = <<"data">>
    /\ children = <<>>
    /\ stuck = 0
    /\ pass = 1
    /\ formatted = <<>>
    /\ result = <<>>
    /\ route = ""
    /\ again = <<>>
    /\ errors = <<>>

\* HmlLexer.peekToken with no lookahead: the next token is read and kept
hmlPeekToken ==
    /\ pc = "hmlLex"
    /\ again = <<>>
    /\ \E token \in {nextTokenInternal(original, tokenIndex, frames)} :
         /\ again' = <<token>>
         /\ tokenIndex' = token.end
         /\ frames' = token.modes
    /\ UNCHANGED <<sourceText, docOptions, formatOptions, tokens, pc, children, stuck, pass,
                   original, formatted, result, route, errors>>

\* HmlLexer.nextToken: the lookahead when there is one, else the next token read; the
\* calls after the EOF token has been returned return it again
hmlNextToken ==
    /\ pc = "hmlLex"
    /\ IF again # <<>>
       THEN /\ tokens' = Append(tokens, again[1])
            /\ again' = <<>>
            /\ pc' = IF again[1].type = "EOF" THEN "hmlLexed" ELSE pc
            /\ UNCHANGED <<tokenIndex, frames>>
       ELSE \E token \in {nextTokenInternal(original, tokenIndex, frames)} :
              /\ tokens' = Append(tokens, token)
              /\ tokenIndex' = token.end
              /\ frames' = token.modes
              /\ pc' = IF token.type = "EOF" THEN "hmlLexed" ELSE pc
              /\ UNCHANGED again
    /\ UNCHANGED <<sourceText, docOptions, formatOptions, children, stuck, pass, original,
                   formatted, result, route, errors>>

HmlLexNext == hmlPeekToken \/ hmlNextToken

SpecHmlLex == HmlLexInit /\ [][HmlLexNext]_arkVars

\* C21: after any sequence of nextToken and peekToken calls the mode stack of the lexer is
\* not empty and its bottom entry is data.
C21_ModeStackBase ==
    /\ frames # <<>>
    /\ frames[1] = "data"
    /\ \A k \in 1..Len(tokens) : tokens[k].modes # <<>> /\ tokens[k].modes[1] = "data"

\* a text with a closer that has no matching open has been lexed to its end, and a tag
\* or an interpolation before it was closed
C21_StrayCloserLexed ==
    /\ pc = "hmlLexed"
    /\ \E k \in 2..Len(tokens) :
         /\ tokens[k].type = "Text"
         /\ Head(tokens[k].value) \in {"}", ">", "/"}
         /\ tokens[k - 1].type \in {"TagEnd", "TagSelfClose", "InterpolationEnd"}

\* C25: an operator token of the interpolation mode is the longest entry of the operator
\* table that the text starts with at the token's start: no longer entry starts there.
C25_LongestOperator ==
    \A k \in 1..Len(tokens) :
        tokens[k].type = "Operator" =>
            \A e \in 1..Len(HmlOperatorTable) :
                StartsWithAt(original, HmlOperatorTable[e], tokens[k].start)
                    => Len(HmlOperatorTable[e]) <= Len(tokens[k].value)

(***************************************************************************)
(* HmlParser.parseDocument on markup put together from cases, so that a    *)
(* property of a parsed node can be compared with the text it was written  *)
(* as.                                                                     *)
(***************************************************************************)

\* the ways the open tag of a void element ends, and the text after it
VoidTagEnds == { <<">">>, <<"/", ">">>, <<" ", "/", ">">>, <<" ", "k", "=", "\"", "v", "\"", ">">> }

TextsAfter == { <<>>, <<"x">> }

\* the tag names the void elements of the markup are written with
VoidTagNames ==
    { <<"a", "r", "e", "a">>, <<"b", "a", "s", "e">>, <<"b", "r">>, <<"c", "o", "l">>, <<"e", "m", "b", "e", "d">>, <<"h", "r">>, <<"i", "m", "g">>, <<"i", "n", "p", "u", "t">>, <<"l", "i", "n", "k">>,
      <<"m", "e", "t", "a">>, <<"p", "a", "r", "a", "m">>, <<"s", "o", "u", "r", "c", "e">>, <<"t", "r", "a", "c", "k">>, <<"w", "b", "r">> }

\* inside the element a, or at the top level of the document
wrapped(inside, text) == IF inside THEN <<"<", "a", ">">> \o text \o <<"<", "/", "a", ">">> ELSE text

\* a void element, written with or without the closing slash
VoidCases ==
    { [text |-> wrapped(inside, <<"<">> \o tag \o end \o after), tagName |-> tag,
       inside |-> inside] :
        tag \in VoidTagNames, end \in VoidTagEnds, after \in TextsAfter, inside \in BOOLEAN }

\* an interpolation holding an object literal, its first key and whether the key has a value
ObjectCases ==
    { [text |-> wrapped(inside, <<"{", "{", " ">> \o o.text \o <<" ", "}", "}">>), key |-> o.key,
       valued |-> o.valued, inside |-> inside] :
        o \in { [text |-> <<"{", "a", ":", " ", "1", "}">>, key |-> <<"a">>, valued |-> TRUE],
                [text |-> <<"{", "a", ":", " ", "1", ",", " ", "b", ":", " ", "2", "}">>, key |-> <<"a">>, valued |-> TRUE],
                [text |-> <<"{", "b", ":", " ", "x", "}">>, key |-> <<"b">>, valued |-> TRUE],
                [text |-> <<"{", "\"", "a", "\"", ":", " ", "1", "}">>, key |-> <<"\"", "a", "\"">>, valued |-> TRUE],
                [text |-> <<"{", "a", "}">>, key |-> <<"a">>, valued |-> FALSE],
                [text |-> <<"{", "a", ",", " ", "b", "}">>, key |-> <<"a">>, valued |-> FALSE] },
        inside \in BOOLEAN }

\* a closing tag without an open tag at the top level of the document, and what is
\* written after it: the text and the type of the node it is
StrayCloserCases ==
    { [text |-> <<"<", "/", "a", ">">> \o r.text, rest |-> r.text, type |-> r.type] :
        r \in { [text |-> <<"x">>, type |-> "Text"],
                [text |-> <<"<", "b", "r", ">">>, type |-> "Element"],
                [text |-> <<"<", "b", ">", "y", "<", "/", "b", ">">>, type |-> "Element"],
                [text |-> <<"{", "{", " ", "x", " ", "}", "}">>, type |-> "Interpolation"],
                [text |-> <<"<", "!", "-", "-", "c", "-", "-", ">">>, type |-> "Comment"] } }

\* an element left open at the end of the text
UnclosedTexts == { <<"<", "a", ">", "<", "b", "r", ">">>, <<"<", "a", ">", "x">>, <<"<", "a", ">", "{", "{", " ", "{", "a", "}", " ", "}", "}">> }

HmlCaseTexts ==
    {c.text : c \in VoidCases} \cup {c.text : c \in ObjectCases}
        \cup {c.text : c \in StrayCloserCases} \cup UnclosedTexts

\* after new HmlParser(text), at the call of parseDocument
HmlCasesInit ==
    /\ original \in HmlCaseTexts
    /\ docOptions \in {d \in DocOptions : d.tabSize = 2}
    /\ sourceText = original
    /\ formatOptions = DEFAULT_FORMAT_OPTIONS
    /\ tokens = hmlTokens(original)
    /\ tokenIndex = 0
    /\ pc = "hmlDocument"
    /\ frames = <<>>
    /\ children = <<>>
    /\ stuck = 0
    /\ pass = 1
    /\ formatted = <<>>
    /\ result = <<>>
    /\ route = ""
    /\ again = <<>>
    /\ errors = <<>>

SpecHmlCases == HmlCasesInit /\ [][HmlNext]_arkVars

\* the first node of the document, or the first child of the first node
firstNode(inside) == IF inside THEN children[1].children[1] ELSE children[1]

\* C22: a tag of the void-tag set written <br> or <br/> is parsed into an element node
\* with selfClosing true and no children, with or without the closing slash.
C22_VoidSelfClosing ==
    pc = "hmlDone" =>
        \A c \in VoidCases :
            original = c.text =>
                /\ errors = <<>>
                /\ Len(children) >= 1
                /\ c.inside => (children[1].type = "Element" /\ Len(children[1].children) >= 1)
                /\ firstNode(c.inside).type = "Element"
                /\ firstNode(c.inside).tagName = c.tagName
                /\ firstNode(c.inside).selfClosing
                /\ firstNode(c.inside).children = <<>>

\* <br> without the closing slash has been parsed inside an element, with text after it
C22_VoidParsed ==
    /\ pc = "hmlDone"
    /\ original = <<"<", "a", ">", "<", "b", "r", ">", "x", "<", "/", "a", ">">>
    /\ Len(children) = 1
    /\ Len(children[1].children) = 2

\* C23: an object literal with key: value entries inside an interpolation is parsed
\* without errors into an ObjectExpression whose first property has the key written,
\* the value parsed after the colon and shorthand false.
C23_ObjectEntryParsed ==
    pc = "hmlDone" =>
        \A c \in ObjectCases :
            (original = c.text /\ c.valued) =>
                /\ errors = <<>>
                /\ firstNode(c.inside).type = "Interpolation"
                /\ firstNode(c.inside).expression.type = "ObjectExpression"
                /\ Len(firstNode(c.inside).expression.properties) >= 1
                /\ ~firstNode(c.inside).expression.properties[1].shorthand
                /\ firstNode(c.inside).expression.properties[1].key
                       \in {identifierNode(c.key),
                            [type |-> "Literal", of |-> "String", raw |-> c.key]}
                /\ firstNode(c.inside).expression.properties[1].value
                       # firstNode(c.inside).expression.properties[1].key

\* C29: after an unexpected closing tag at the top level of the document the parser has
\* recorded one error and goes on with the token after the tag's ">": the text, element,
\* interpolation or comment written after the tag is the document's first node.
C29_NothingDiscarded ==
    pc = "hmlDone" =>
        \A c \in StrayCloserCases :
            original = c.text =>
                /\ Len(errors) = 1
                /\ errors[1].message = <<"U", "n", "e", "x", "p", "e", "c", "t", "e", "d", " ", "c", "l", "o", "s", "i", "n", "g", " ", "t", "a", "g">>
                /\ Len(children) = 1
                /\ children[1].type = c.type

(***************************************************************************)
(* The expression formatter of the markup formatter, and                   *)
(* HmlFormattingProvider.provideDocumentFormattingEdits called on a        *)
(* document and again on the text it returned.                             *)
(*                                                                         *)
(* formatted is the text of the first call and again the text of the       *)
(* second, result the children parsed by the first call, route whether the *)
(* first parse reported errors, and pass the number of the call.           *)
(***************************************************************************)

\* String(Number(raw)) of a Number token written with decimal digits only
numberText(raw) ==
    LET of(z) == IF z >= Len(raw) THEN <<"0">> ELSE SliceFrom(raw, z)
    IN  of(ScanWhile(raw, 0, {"0"}))

formatLiteral(literal) ==
    IF literal.of = "String" THEN literal.raw
    ELSE IF literal.of = "Number" THEN numberText(literal.raw)
    ELSE IF literal.of \in {"Boolean", "Null"} THEN literal.raw
    ELSE IF StartsWith(literal.raw, <<"\"">>) \/ StartsWith(literal.raw, <<"'">>) THEN literal.raw
    ELSE <<"\"">> \o literal.raw \o <<"\"">>

getBinaryPrecedence(operator) ==
    IF operator = <<"|", "|">> THEN 3
    ELSE IF operator = <<"&", "&">> THEN 4
    ELSE IF operator \in {<<"=", "=">>, <<"!", "=">>, <<"=", "=", "=">>, <<"!", "=", "=">>} THEN 5
    ELSE IF operator \in {<<"<">>, <<">">>, <<"<", "=">>, <<">", "=">>} THEN 6
    ELSE IF operator \in {<<"+">>, <<"-">>} THEN 7
    ELSE IF operator \in {<<"*">>, <<"/">>, <<"%">>} THEN 8
    ELSE 9

wrapIfNeeded(text, precedence, parentPrecedence) ==
    IF precedence < parentPrecedence THEN <<"(">> \o text \o <<")">> ELSE text

RECURSIVE formatExpression(_, _)
formatExpression(node, parentPrecedence) ==
    LET each(list) == [k \in 1..Len(list) |-> formatExpression(list[k], 0)]
        property(p) ==
            IF p.shorthand THEN formatExpression(p.key, 0)
            ELSE formatExpression(p.key, 0) \o <<":", " ">> \o formatExpression(p.value, 0)
        binary(prec) ==
            wrapIfNeeded(formatExpression(node.left, prec) \o <<" ">> \o node.operator \o <<" ">>
                             \o formatExpression(node.right, prec + 1),
                         prec, parentPrecedence)
    IN  IF node.type = "Identifier" THEN node.name
        ELSE IF node.type = "Literal" THEN formatLiteral(node)
        ELSE IF node.type = "UnaryExpression"
             THEN wrapIfNeeded(node.operator \o formatExpression(node.argument, 9), 9,
                               parentPrecedence)
        ELSE IF node.type = "BinaryExpression" THEN binary(getBinaryPrecedence(node.operator))
        ELSE IF node.type = "LogicalExpression"
             THEN binary(IF node.operator = <<"|", "|">> THEN 3 ELSE 4)
        ELSE IF node.type = "ConditionalExpression"
             THEN wrapIfNeeded(formatExpression(node.test, 2) \o <<" ", "?", " ">>
                                   \o formatExpression(node.consequent, 2) \o <<" ", ":", " ">>
                                   \o formatExpression(node.alternate, 2),
                               2, parentPrecedence)
        ELSE IF node.type = "AssignmentExpression"
             THEN wrapIfNeeded(formatExpression(node.left, 1) \o <<" ">> \o node.operator
                                   \o <<" ">> \o formatExpression(node.right, 1),
                               1, parentPrecedence)
        ELSE IF node.type = "MemberExpression"
             THEN wrapIfNeeded(formatExpression(node.object, 10)
                                   \o (IF node.computed
                                       THEN <<"[">> \o formatExpression(node.property, 0) \o <<"]">>
                                       ELSE <<".">> \o formatExpression(node.property, 10)),
                               10, parentPrecedence)
        ELSE IF node.type = "CallExpression"
             THEN wrapIfNeeded(formatExpression(node.callee, 10) \o <<"(">>
                                   \o Join(each(node.arguments), <<",", " ">>) \o <<")">>,
                               10, parentPrecedence)
        ELSE IF node.type = "ArrayExpression"
             THEN <<"[">> \o Join(each(node.elements), <<",", " ">>) \o <<"]">>
        ELSE IF node.type = "ObjectExpression"
             THEN <<"{", " ">>
                  \o Join([k \in 1..Len(node.properties) |-> property(node.properties[k])],
                          <<",", " ">>)
                  \o <<" ", "}">>
        ELSE IF node.type = "Property" THEN property(node)
        ELSE IF node.type = "GroupingExpression"
             THEN <<"(">> \o formatExpression(node.expression, 0) \o <<")">>
        ELSE <<>>

formatInterpolation(node) == <<"{", "{", " ">> \o formatExpression(node.expression, 0) \o <<" ", "}", "}">>

\* value.replace(/\s+/g, ' ').trim(), for a value whose white space is at its ends
formatText(node) == Trim(node.value)

\* formatNode at indent level 0, for the nodes of a document without elements
hmlFormatNode(node) ==
    IF node.type = "Text" THEN formatText(node)
    ELSE IF node.type = "Interpolation" THEN formatInterpolation(node)
    ELSE IF node.type = "Comment" THEN <<"<", "!", "-", "-">> \o node.value \o <<"-", "-", ">">>
    ELSE <<>>

hmlFormatDocument(nodes, eol) ==
    LET parts == [k \in 1..Len(nodes) |-> hmlFormatNode(nodes[k])]
        RECURSIVE kept(_)
        kept(k) == IF k > Len(parts) THEN <<>>
                   ELSE IF Trim(parts[k]) = <<>> THEN kept(k + 1)
                   ELSE <<parts[k]>> \o kept(k + 1)
    IN  Join(kept(1), eol)

\* what is written before the operand of an expression, the operands, and what is
\* written after the operand
ExprPrefixes == { <<>>, <<"-">>, <<"!">>, <<"-", " ", "-">>, <<"+", " ", "+">>, <<"!", " ", "!">>, <<"-", " ", "+">>, <<"~">> }

ExprOperands ==
    { <<"a">>, <<"1">>, <<"\"", "s", "\"">>, <<"t", "r", "u", "e">>, <<"n", "u", "l", "l">>, <<"a", ".", "b">>, <<"f", "(", "a", ",", " ", "1", ")">>, <<"a", "[", "0", "]">>, <<"[", "a", ",", " ", "1", "]">>,
      <<"(", "a", " ", "+", " ", "1", ")">>, <<"{", "a", "}">> }

ExprTails ==
    { <<>>, <<" ", "+", " ", "1">>, <<"*", "b">>, <<" ", "=", "=", "=", " ", "b">>, <<" ", "&", "&", " ", "b">>, <<" ", "|", "|", " ", "b", " ", "&", "&", " ", "c">>, <<" ", "?", " ", "b", " ", ":", " ", "c">>, <<" ", "=", " ", "1">>,
      <<" ", "-", " ", "-", "b">>, <<" ", ">", " ", "b">>, <<" ", "?", " ", "b", " ", "=", " ", "1", " ", ":", " ", "c">>, <<" ", "-", " ", "b", " ", "-", " ", "c">> }

ExprTexts ==
    { <<"{", "{", " ">> \o p \o o \o t \o <<" ", "}", "}">> : p \in ExprPrefixes, o \in ExprOperands, t \in ExprTails }

\* at the first call of provideDocumentFormattingEdits, after new HmlParser(text)
HmlExprInit ==
    /\ original \in ExprTexts
    /\ docOptions \in {d \in DocOptions : d.tabSize = 2}
    /\ sourceText = original
    /\ formatOptions = DEFAULT_FORMAT_OPTIONS
    /\ tokens = hmlTokens(original)
    /\ tokenIndex = 0
    /\ pc = "hmlDocument"
    /\ frames = <<>>
    /\ children = <<>>
    /\ stuck = 0
    /\ pass = 1
    /\ formatted = <<>>
    /\ result = <<>>
    /\ route = ""
    /\ again = <<>>
    /\ errors = <<>>

\* provideDocumentFormattingEdits after parseDocument: the text of the edit it returns
hmlProvideEdits ==
    /\ pc = "hmlDone"
    /\ IF pass = 1
       THEN /\ formatted' = hmlFormatDocument(children, <<"\n">>)
            /\ UNCHANGED again
       ELSE /\ again' = hmlFormatDocument(children, <<"\n">>)
            /\ UNCHANGED formatted
    /\ pc' = "hmlFormatted"
    /\ UNCHANGED <<sourceText, docOptions, formatOptions, tokens, tokenIndex, frames, children,
                   stuck, pass, original, result, route, errors>>

\* the edit is applied and provideDocumentFormattingEdits is called again: new
\* HmlParser(text) on the formatted text
hmlProvideAgain ==
    /\ pc = "hmlFormatted"
    /\ pass = 1
    /\ sourceText' = formatted
    /\ tokens' = hmlTokens(formatted)
    /\ tokenIndex' = 0
    /\ result' = children
    /\ route' = IF errors = <<>> THEN "accepted" ELSE "errors"
    /\ children' = <<>>
    /\ errors' = <<>>
    /\ pass' = 2
    /\ pc' = "hmlDocument"
    /\ UNCHANGED <<docOptions, formatOptions, frames, stuck, original, formatted, again>>

HmlExprNext ==
    \/ hmlParseDocumentLoop
    \/ hmlParseDocumentExit
    \/ hmlProvideEdits
    \/ hmlProvideAgain

SpecHmlExpr == HmlExprInit /\ [][HmlExprNext]_arkVars

\* C24: when the parser accepts an interpolation's expression without errors, the text
\* formatExpression gives for it is parsed again without errors into the same tree, and
\* formatting that text gives the same text.
C24_FormatReparses ==
    (pc = "hmlFormatted" /\ pass = 2 /\ route = "accepted") =>
        /\ errors = <<>>
        /\ children = result
        /\ again = formatted


(***************************************************************************)
(* The two reindenters on blocks with braces inside a line and with a      *)
(* block nested in another block.                                          *)
(***************************************************************************)

\* a block opened on a chained-call line, with a brace-balanced line in it
ChainBraceBlock ==
    << <<"T", "e", "x", "t", "(", "'", "a", "'", ")">>, <<".", "o", "n", "C", "l", "i", "c", "k", "(", "(", ")", " ", "=", ">", " ", "{">>, <<"f", "o", "o", "(", "{", " ", "a", ":", " ", "1", " ", "}", ")">>, <<"b", "a", "r", "(", ")">>, <<"}", ")">> >>

BalancedLineBlock == << <<"f", "o", "o", "(", "{", " ", "a", ":", " ", "1", " ", "}", ")">>, <<"b", "a", "r", "(", ")">> >>

IfBlock == << <<"i", "f", " ", "(", "a", ")", " ", "{">>, <<"f", "o", "o", "(", "{", " ", "a", ":", " ", "1", " ", "}", ")">>, <<"b", "a", "r", "(", ")">>, <<"}">> >>

\* a block nested inside a switch case
CaseBraceBlock ==
    << <<"s", "w", "i", "t", "c", "h", " ", "(", "x", ")", " ", "{">>, <<"c", "a", "s", "e", " ", "1", ":">>, <<"i", "f", " ", "(", "a", ")", " ", "{">>, <<"f", "o", "o", "(", ")", ";">>, <<"}">>, <<"b", "r", "e", "a", "k", ";">>, <<"}">> >>

BraceBlocks ==
    LET plain == {ChainBraceBlock, BalancedLineBlock, IfBlock, CaseBraceBlock}
    IN  plain \cup {InColumn(b) : b \in plain} \cup {InColumn(InColumn(b)) : b \in plain}

ReindentBraceInit ==
    /\ docOptions \in DocOptions
    /\ \E lines \in BraceBlocks : original = Join(lines, docOptions.eol)
    /\ route \in {"fallback", "structural"}
    /\ sourceText = original
    /\ formatOptions = formatOptionsOf(docOptions, original)
    /\ tokens = <<>>
    /\ tokenIndex = 0
    /\ pc = IF route = "fallback" THEN "basic" ELSE "buildBody"
    /\ frames = <<>>
    /\ children = <<>>
    /\ stuck = 0
    /\ pass = 1
    /\ formatted = <<>>
    /\ result = <<>>
    /\ again = <<>>
    /\ errors = <<>>

SpecReindentBrace == ReindentBraceInit /\ [][ReindentNext]_arkVars

\* line k has braces, as many closed as opened, and starts a statement
balancedLine(line) ==
    /\ countBracesOutsideStrings(line).openBraces > 0
    /\ countBracesOutsideStrings(line).openBraces = countBracesOutsideStrings(line).closeBraces
    /\ At(line, 0) \notin {"}", "."}
    /\ ~isCaseLabel(line)

\* C26: a line whose braces are balanced does not change the indentation state: the line
\* after it, at the same brace depth, is placed at the same indent level, also inside a
\* block opened on a chained-call line.
C26_BalancedLineKeepsIndent ==
    reindented =>
        LET holds(v) ==
                /\ Len(v.level) = Len(v.lines)
                /\ \A k \in 1..(Len(v.lines) - 1) :
                       (/\ balancedLine(v.lines[k])
                        /\ At(v.lines[k + 1], 0) \notin {"}", "."}
                        /\ ~isCaseLabel(v.lines[k + 1]))
                           => v.level[k + 1] = v.level[k]
        IN  holds(reindentView)

\* line k opens the block that the brace at the start of line c closes
opens(v, k, c) ==
    /\ k < c
    /\ v.depth[k] < v.depth[c]
    /\ \A m \in (k + 1)..c : v.depth[m] >= v.depth[c]

\* C27: a line that begins with a closing brace is placed at the indent level of the line
\* that opened the block it closes, also when the block is nested inside a switch case.
C27_CloserAlignsWithOpener ==
    reindented =>
        LET holds(v) ==
                /\ Len(v.level) = Len(v.lines)
                /\ \A k, c \in 1..Len(v.lines) :
                       (StartsWith(v.lines[c], <<"}">>) /\ opens(v, k, c))
                           => v.level[c] = v.level[k]
        IN  holds(reindentView)

(***************************************************************************)
(* The error list of ArkTSParser at the provider's parse-error check       *)
(***************************************************************************)

\* a text with a block that is opened and not closed, and without strings or comments
unclosedBlock(text) ==
    /\ CountIn(text, {"{"}) > CountIn(text, {"}"})
    /\ CountIn(text, {"'", "\"", "/", BT}) = 0

\* ArkTSParser never calls its reportError: its error list stays empty
arkErrorsEmpty == errors = <<>>

\* C28: the parse-error layer is reachable: when parseDocument has returned for a
\* malformed input, one with a block left open, the parser's errors list is not empty
\* and the provider falls back at its parse-error check.
C28_MalformedReported ==
    (pc = "format" /\ pass = 1 /\ unclosedBlock(original)) => errors # <<>>

(***************************************************************************)
(* The extension's activate function and its configuration-change handler  *)
(*                                                                         *)
(* docOptions is the configuration (the two enabled settings), frames the  *)
(* registrations made with registerDocumentFormattingEditProvider (a       *)
(* disposable is the index of its registration), children                  *)
(* context.subscriptions, tokenIndex hmlFormattingDisposable and stuck     *)
(* arktsFormattingDisposable (0 for undefined), pass the number of         *)
(* configuration-change events so far.                                     *)
(***************************************************************************)

\* the most configuration-change events in a run
MaxEvents == 4

Settings == {"hmlFormat", "arktsFormat"}

Configurations == [Settings -> BOOLEAN]

\* registerDocumentFormattingEditProvider(language, provider) on the registrations regs
registerProvider(regs, language) == Append(regs, [language |-> language, live |-> TRUE])

\* disposable.dispose()
dispose(regs, disposable) == [regs EXCEPT ![disposable].live = FALSE]

\* the state the two update functions work on
Activation(regs, subscriptions, hml, arkts) ==
    [regs |-> regs, subscriptions |-> subscriptions, hml |-> hml, arkts |-> arkts]

updateHmlFormattingProvider(a, config) ==
    IF config["hmlFormat"] /\ a.hml = 0
    THEN Activation(registerProvider(a.regs, "hml"),
                    Append(a.subscriptions, Len(a.regs) + 1), Len(a.regs) + 1, a.arkts)
    ELSE IF ~config["hmlFormat"] /\ a.hml # 0
         THEN Activation(dispose(a.regs, a.hml), a.subscriptions, 0, a.arkts)
    ELSE a

updateArkTSFormattingProvider(a, config) ==
    IF config["arktsFormat"] /\ a.arkts = 0
    THEN Activation(registerProvider(registerProvider(a.regs, "arkts"), "arkts-test"),
                    a.subscriptions \o <<Len(a.regs) + 1, Len(a.regs) + 2>>,
                    a.hml, Len(a.regs) + 1)
    ELSE IF ~config["arktsFormat"] /\ a.arkts # 0
         THEN Activation(dispose(a.regs, a.arkts), a.subscriptions, a.hml, 0)
    ELSE a

\* before activate, with the configuration the user has
ActivateInit ==
    /\ docOptions \in Configurations
    /\ frames = <<>>
    /\ children = <<>>
    /\ tokenIndex = 0
    /\ stuck = 0
    /\ pass = 0
    /\ pc = "activate"
    /\ sourceText = <<>>
    /\ formatOptions = DEFAULT_FORMAT_OPTIONS
    /\ tokens = <<>>
    /\ original = <<>>
    /\ formatted = <<>>
    /\ result = <<>>
    /\ route = ""
    /\ again = <<>>
    /\ errors = <<>>

\* the variables of the activation take the values of a
activated(a) ==
    /\ frames' = a.regs
    /\ children' = a.subscriptions
    /\ tokenIndex' = a.hml
    /\ stuck' = a.arkts

activate ==
    /\ pc = "activate"
    /\ activated(updateArkTSFormattingProvider(
                     updateHmlFormattingProvider(Activation(<<>>, <<>>, 0, 0), docOptions),
                     docOptions))
    /\ pc' = "active"
    /\ UNCHANGED <<sourceText, docOptions, formatOptions, tokens, pass, original, formatted,
                   result, route, again, errors>>

\* the user changes the configuration to config and the handler of
\* onDidChangeConfiguration runs: the event affects the settings whose value changed
onDidChangeConfiguration ==
    /\ pc = "active"
    /\ pass < MaxEvents
    /\ \E config \in Configurations :
         LET affects(setting) == config[setting] # docOptions[setting]
             first(a) == IF affects("hmlFormat") THEN updateHmlFormattingProvider(a, config)
                         ELSE a
             second(a) == IF affects("arktsFormat")
                          THEN updateArkTSFormattingProvider(a, config)
                          ELSE a
         IN  /\ docOptions' = config
             /\ activated(second(first(Activation(frames, children, tokenIndex, stuck))))
    /\ pass' = pass + 1
    /\ UNCHANGED <<sourceText, formatOptions, tokens, pc, original, formatted, result, route,
                   again, errors>>

ActivateNext ==
    \/ activate
    \/ onDidChangeConfiguration

SpecActivate == ActivateInit /\ [][ActivateNext]_arkVars

\* the live formatting providers of a language
liveProviders(language) ==
    Cardinality({k \in 1..Len(frames) : frames[k].language = language /\ frames[k].live})

\* C30: after activation and any sequence of configuration changes each of the languages
\* hml, arkts and arkts-test has exactly one live formatting provider when its setting is
\* enabled and none when it is disabled.
C30_OneProviderWhenEnabled ==
    pc = "active" =>
        /\ liveProviders("hml") = IF docOptions["hmlFormat"] THEN 1 ELSE 0
        /\ liveProviders("arkts") = IF docOptions["arktsFormat"] THEN 1 ELSE 0
        /\ liveProviders("arkts-test") = IF docOptions["arktsFormat"] THEN 1 ELSE 0

====
